---------------------------- MODULE Spec2Model ----------------------------
(***************************************************************************)
(* The capability router of the CVD risk assistant                         *)
(* (backend/XAIagent_code/orchestrator.py): the session state held by      *)
(* CVDAgentOrchestrator, the keyword classifier _analyze_intent, the       *)
(* dispatcher route_request and analyze_patient; the chat endpoint of      *)
(* backend/app.py, whose request threads share one orchestrator; and the   *)
(* numeric core: the inference paths of PredictionAgent and /api/predict,  *)
(* the scenario comparison of ExplanationAgent and compare_scenarios.      *)
(*                                                                         *)
(* Text is a sequence of one-character strings, so that Python's           *)
(* `kw in msg` is the substring test it is and str.lower() is a map over   *)
(* the characters.                                                         *)
(***************************************************************************)
EXTENDS Integers, Sequences, FiniteSets, TLC

VARIABLES
    explanation_agent,      \* self.explanation_agent: None or [use_rag]
    knowledge_agent,        \* self.knowledge_agent: None or [use_rag, use_pubmed]
    intervention_agent,     \* self.intervention_agent: None or [use_rag]
    current_prediction,     \* self.current_prediction
    current_patient_data,   \* self.current_patient_data
    updated_scenarios,      \* self.updated_scenarios (the scenario history)
    request,                \* the last call made on the orchestrator
    dispatch,               \* the capability call that call made, and how it ended
    chat,                   \* the chat request each server thread is handling
    written_by,             \* history: the chat request in flight that wrote each field
    prediction_agent,       \* self.prediction_agent: [is_loaded]
    core,                   \* the last call of the numeric core, and what it did
    xai_orchestrator,       \* app.py's global: the orchestrator instance, or none
    constructed             \* history: the instances constructed so far

session == <<current_prediction, current_patient_data, updated_scenarios>>
agents == <<explanation_agent, knowledge_agent, intervention_agent>>
startup == <<xai_orchestrator, constructed>>
vars == <<explanation_agent, knowledge_agent, intervention_agent,
          current_prediction, current_patient_data, updated_scenarios,
          request, dispatch, chat, written_by, prediction_agent, core,
          xai_orchestrator, constructed>>

\* Longest scenario history a request context carries.
MaxHistory == 2

\* Python's None.
None == [none |-> TRUE]

------------------------------------------------------------------------------
(* Text *)

UpperCase == <<"A","B","C","D","E","F","G","H","I","J","K","L","M",
               "N","O","P","Q","R","S","T","U","V","W","X","Y","Z">>
LowerCase == <<"a","b","c","d","e","f","g","h","i","j","k","l","m",
               "n","o","p","q","r","s","t","u","v","w","x","y","z">>

\* str.lower() on one character.
LowerChar(c) ==
    IF \E i \in 1..26 : UpperCase[i] = c
    THEN LowerCase[CHOOSE i \in 1..26 : UpperCase[i] = c]
    ELSE c

\* str.lower()
Lower(s) == [i \in 1..Len(s) |-> LowerChar(s[i])]

\* Python's `kw in s` on strings: kw is a substring of s.
In(kw, s) ==
    \E i \in 1..(Len(s) - Len(kw) + 1) : SubSeq(s, i, i + Len(kw) - 1) = kw

\* any(kw in s for kw in kws)
AnyIn(kws, s) == \E k \in 1..Len(kws) : In(kws[k], s)

\* orchestrator.py:72-75
clinical_keywords ==
    << <<"t","f","r">>,   \* 'tfr'
       <<"t","r","e","a","t","m","e","n","t","-","f","r","e","e">>,   \* 'treatment-free'
       <<"d","i","s","c","o","n","t","i","n","u","e">>,   \* 'discontinue'
       <<"s","t","o","p">>,   \* 'stop'
       <<"q","u","i","t">>,   \* 'quit'
       <<"e","l","i","g","i","b","l","e">>,   \* 'eligible'
       <<"c","r","i","t","e","r","i","a">>,   \* 'criteria'
       <<"m","o","n","i","t","o","r">>,   \* 'monitor'
       <<"s","c","h","e","d","u","l","e">>,   \* 'schedule'
       <<"s","i","d","e"," ","e","f","f","e","c","t">>,   \* 'side effect'
       <<"a","d","v","e","r","s","e">>,   \* 'adverse'
       <<"p","r","o","t","o","c","o","l">> >>   \* 'protocol'

\* orchestrator.py:80
research_keywords ==
    << <<"p","u","b","m","e","d">>,   \* 'pubmed'
       <<"s","e","a","r","c","h">>,   \* 'search'
       <<"f","i","n","d">>,   \* 'find'
       <<"l","i","t","e","r","a","t","u","r","e">>,   \* 'literature'
       <<"a","r","t","i","c","l","e">>,   \* 'article'
       <<"s","t","u","d","y">>,   \* 'study'
       <<"j","o","u","r","n","a","l">>,   \* 'journal'
       <<"g","u","i","d","e","l","i","n","e">> >>   \* 'guideline'

\* orchestrator.py:85
compare_keywords ==
    << <<"c","o","m","p","a","r","e">>,   \* 'compare'
       <<"d","i","f","f","e","r","e","n","c","e">>,   \* 'difference'
       <<"v","e","r","s","u","s">>,   \* 'versus'
       <<"v","s">>,   \* 'vs'
       <<"b","e","t","w","e","e","n">>,   \* 'between'
       <<"c","h","a","n","g","e">>,   \* 'change'
       <<"b","e","t","t","e","r">>,   \* 'better'
       <<"w","o","r","s","e">>,   \* 'worse'
       <<"i","m","p","a","c","t">>,   \* 'impact'
       <<"w","h","a","t","-","i","f">> >>   \* 'what-if'

\* orchestrator.py:90
explain_keywords ==
    << <<"e","x","p","l","a","i","n">>,   \* 'explain'
       <<"w","h","y">>,   \* 'why'
       <<"h","o","w">>,   \* 'how'
       <<"m","e","a","n","i","n","g">>,   \* 'meaning'
       <<"i","n","t","e","r","p","r","e","t">>,   \* 'interpret'
       <<"c","o","n","t","r","i","b","u","t","i","o","n">>,   \* 'contribution'
       <<"s","h","a","p">> >>   \* 'shap'

\* orchestrator.py:96
plan_keywords ==
    << <<"r","e","c","o","m","m","e","n","d">>,   \* 'recommend'
       <<"s","u","g","g","e","s","t">>,   \* 'suggest'
       <<"p","l","a","n">>,   \* 'plan'
       <<"a","d","v","i","c","e">>,   \* 'advice'
       <<"m","a","n","a","g","e">>,   \* 'manage'
       <<"s","t","r","a","t","e","g","y">>,   \* 'strategy'
       <<"a","c","t","i","o","n"," ","p","l","a","n">> >>   \* 'action plan'

\* app.py:285
explanation_keywords ==
    << <<"e","x","p","l","a","i","n">>,   \* 'explain'
       <<"w","h","y">>,   \* 'why'
       <<"h","o","w">>,   \* 'how'
       <<"w","h","a","t"," ","d","o","e","s">>,   \* 'what does'
       <<"u","n","d","e","r","s","t","a","n","d">>,   \* 'understand'
       <<"m","e","a","n","i","n","g">> >>   \* 'meaning'

\* app.py:291, the words an explanation request must also contain
attribution_words ==
    << <<"s","h","a","p">>,   \* 'shap'
       <<"c","o","n","t","r","i","b","u","t","i","o","n">>,   \* 'contribution'
       <<"f","a","c","t","o","r">> >>   \* 'factor'

\* app.py:286
intervention_keywords ==
    << <<"r","e","c","o","m","m","e","n","d">>,   \* 'recommend'
       <<"s","u","g","g","e","s","t">>,   \* 'suggest'
       <<"w","h","a","t"," ","s","h","o","u","l","d">>,   \* 'what should'
       <<"a","c","t","i","o","n">>,   \* 'action'
       <<"p","l","a","n">>,   \* 'plan'
       <<"i","n","t","e","r","v","e","n","t","i","o","n">>,   \* 'intervention'
       <<"t","r","e","a","t","m","e","n","t">>,   \* 'treatment'
       <<"a","d","v","i","c","e">> >>   \* 'advice'

\* app.py:368-371, the list is_comparison_query searches
comparison_query_keywords ==
    << <<"c","o","m","p","a","r","e">>,   \* 'compare'
       <<"d","i","f","f","e","r","e","n","c","e">>,   \* 'difference'
       <<"b","e","t","t","e","r">>,   \* 'better'
       <<"w","o","r","s","e">>,   \* 'worse'
       <<"c","h","a","n","g","e">>,   \* 'change'
       <<"u","p","d","a","t","e","d">>,   \* 'updated'
       <<"w","h","a","t","-","i","f">>,   \* 'what-if'
       <<"s","c","e","n","a","r","i","o">>,   \* 'scenario'
       <<"s","e","c","o","n","d">>,   \* 'second'
       <<"t","h","i","r","d">>,   \* 'third'
       <<"f","o","u","r","t","h">>,   \* 'fourth'
       <<"a","l","t","e","r","n","a","t","i","v","e">> >>   \* 'alternative'

MsgExplain == "Explain the risk"
MsgHowReduce == "How should I reduce risk?"
MsgPlan == "Recommend a plan"
MsgPlanQuestion == "What is the plan?"
MsgHowRecommend == "How do you recommend lowering risk?"
MsgCompareExplain == "Compare the scenarios and explain"
MsgVersusExplain == "Explain drug A versus drug B"
MsgClinicalAll == "Should he discontinue? Suggest a plan, compare and explain"
MsgComparePlan == "Compare my plan"
MsgDefault == "Tell me about the risk"
MsgMonitor == "Which criteria and side effect to monitor? Any advice"
MsgExplainShap == "Explain the SHAP factors"

Messages ==
    { MsgExplain, MsgHowReduce, MsgPlan, MsgPlanQuestion,
      MsgHowRecommend, MsgCompareExplain, MsgVersusExplain, MsgClinicalAll,
      MsgComparePlan, MsgDefault, MsgMonitor, MsgExplainShap }

\* The characters of each message.
Text ==
    [ m \in Messages |->
        CASE m = MsgExplain ->
               <<"E","x","p","l","a","i","n"," ","t","h","e"," ","r","i","s","k">>
          [] m = MsgHowReduce ->
               <<"H","o","w"," ","s","h","o","u","l","d"," ","I"," ","r","e","d","u","c","e"," ","r","i","s","k","?">>
          [] m = MsgPlan ->
               <<"R","e","c","o","m","m","e","n","d"," ","a"," ","p","l","a","n">>
          [] m = MsgPlanQuestion ->
               <<"W","h","a","t"," ","i","s"," ","t","h","e"," ","p","l","a","n","?">>
          [] m = MsgHowRecommend ->
               <<"H","o","w"," ","d","o"," ","y","o","u"," ","r","e","c","o","m","m","e","n","d"," ","l","o","w","e","r","i","n","g"," ","r","i","s","k","?">>
          [] m = MsgCompareExplain ->
               <<"C","o","m","p","a","r","e"," ","t","h","e"," ","s","c","e","n","a","r","i","o","s"," ","a","n","d"," ","e","x","p","l","a","i","n">>
          [] m = MsgVersusExplain ->
               <<"E","x","p","l","a","i","n"," ","d","r","u","g"," ","A"," ","v","e","r","s","u","s"," ","d","r","u","g"," ","B">>
          [] m = MsgClinicalAll ->
               <<"S","h","o","u","l","d"," ","h","e"," ","d","i","s","c","o","n","t","i","n","u","e","?"," ","S","u","g","g","e","s","t"," ","a"," ","p","l","a","n",","," ","c","o","m","p","a","r","e"," ","a","n","d"," ","e","x","p","l","a","i","n">>
          [] m = MsgComparePlan ->
               <<"C","o","m","p","a","r","e"," ","m","y"," ","p","l","a","n">>
          [] m = MsgDefault ->
               <<"T","e","l","l"," ","m","e"," ","a","b","o","u","t"," ","t","h","e"," ","r","i","s","k">>
          [] m = MsgMonitor ->
               <<"W","h","i","c","h"," ","c","r","i","t","e","r","i","a"," ","a","n","d"," ","s","i","d","e"," ","e","f","f","e","c","t"," ","t","o"," ","m","o","n","i","t","o","r","?"," ","A","n","y"," ","a","d","v","i","c","e">>
          [] m = MsgExplainShap ->
               <<"E","x","p","l","a","i","n"," ","t","h","e"," ","S","H","A","P"," ","f","a","c","t","o","r","s">> ]

------------------------------------------------------------------------------
(* Intent classification *)

\* A mis-ordered classifier: the plan rule is tried before the clinical rule.
_analyze_intent_plan_first(message) ==
    LET msg == Lower(message) IN
    IF AnyIn(plan_keywords, msg) THEN "intervention"
    ELSE IF AnyIn(clinical_keywords, msg) THEN "knowledge"
    ELSE IF AnyIn(research_keywords, msg) THEN "knowledge"
    ELSE IF AnyIn(compare_keywords, msg) THEN "explanation"
    ELSE IF AnyIn(explain_keywords, msg) THEN "explanation"
    ELSE "knowledge"

\* A classifier without the comparison rule: a comparison keyword is skipped
\* and the later rules decide.
_analyze_intent_later_rules(message) ==
    LET msg == Lower(message) IN
    IF AnyIn(clinical_keywords, msg) THEN "knowledge"
    ELSE IF AnyIn(research_keywords, msg) THEN "knowledge"
    ELSE IF AnyIn(explain_keywords, msg) THEN "explanation"
    ELSE IF AnyIn(plan_keywords, msg) THEN "intervention"
    ELSE "knowledge"

\* CVDAgentOrchestrator._analyze_intent: the first matching rule wins.
_analyze_intent(message) ==
    LET msg == Lower(message) IN
    IF AnyIn(clinical_keywords, msg) THEN "knowledge"
    ELSE IF AnyIn(research_keywords, msg) THEN "knowledge"
    ELSE IF AnyIn(compare_keywords, msg) THEN "explanation"
    ELSE IF AnyIn(explain_keywords, msg) THEN "explanation"
    ELSE IF AnyIn(plan_keywords, msg) THEN "intervention"
    ELSE "knowledge"

\* is_comparison, as route_request computes it (line 150).
is_comparison(user_message) ==
    LET \* orchestrator.py:150, the list is_comparison searches
        comparison_triggers ==
            << <<"c","o","m","p","a","r","e">>,   \* 'compare'
               <<"d","i","f","f","e","r","e","n","c","e">>,   \* 'difference'
               <<"w","h","a","t","-","i","f">>,   \* 'what-if'
               <<"v","s">> >>   \* 'vs'
    IN  AnyIn(comparison_triggers, Lower(user_message))

\* is_specific_question, as route_request computes it (line 170): the question
\* mark is looked for in the message as given, the words in its lower case.
is_specific_question(user_message) ==
    LET \* orchestrator.py:170, the interrogatives is_specific_question searches
        question_words ==
            << <<"h","o","w">>,   \* 'how'
               <<"i","s"," ","h","e">>,   \* 'is he'
               <<"c","a","n"," ","h","e">>,   \* 'can he'
               <<"w","h","a","t"," ","i","s">>,   \* 'what is'
               <<"w","h","e","n">> >>   \* 'when'
    IN
    \/ In(<<"?">>, user_message)
    \/ AnyIn(question_words, Lower(user_message))

\* The classifier and the two tests on every message of the model, computed
\* once.
IntentOf == [m \in Messages |-> _analyze_intent(Text[m])]
IsComparison == [m \in Messages |-> is_comparison(Text[m])]
IsSpecificQuestion == [m \in Messages |-> is_specific_question(Text[m])]

------------------------------------------------------------------------------
(* Session data *)

\* Patient records (FeatureRecord): two that differ in one feature.
PatientRecords == { [anchor_age |-> 45], [anchor_age |-> 70] }

\* A prediction result as the session holds it; feature_values is the record
\* it was computed from.
PredictionOf(patient_data) == [feature_values |-> patient_data]

Predictions == { PredictionOf(r) : r \in PatientRecords }

\* Scenario histories of at most n entries.
Histories(n) == UNION { [1..k -> Predictions] : k \in 0..n }

Context(keys, pd, pr, us, up, ug) ==
    [keys |-> keys,
     patient_data |-> IF "patient_data" \in keys THEN pd ELSE None,
     prediction |-> IF "prediction" \in keys THEN pr ELSE None,
     updated_scenarios |-> IF "updated_scenarios" \in keys THEN us ELSE <<>>,
     use_pubmed |-> IF "use_pubmed" \in keys THEN up ELSE FALSE,
     use_guidelines |-> IF "use_guidelines" \in keys THEN ug ELSE FALSE]

\* context_data = None, and the empty dict, which `if context_data:` treats alike.
NoContext == Context({}, None, None, <<>>, FALSE, FALSE)

------------------------------------------------------------------------------
(* Capability calls *)

\* No capability was called.
NoCall == [agent |-> "none", method |-> "none"]

\* explanation_agent.compare_predictions(result1, result2, ...)
compare_predictions(self, result1, result2) ==
    [agent |-> "explanation", method |-> "compare_predictions",
     self |-> self, result1 |-> result1, result2 |-> result2]

\* explanation_agent.explain_prediction(prediction_result, detail_level)
explain_prediction(self, prediction_result) ==
    [agent |-> "explanation", method |-> "explain_prediction",
     self |-> self, prediction_result |-> prediction_result]

\* intervention_agent.suggest_interventions(prediction_result)
suggest_interventions(self, prediction_result) ==
    [agent |-> "intervention", method |-> "suggest_interventions",
     self |-> self, prediction_result |-> prediction_result]

\* knowledge_agent.answer_question(question, context)
answer_question(self, question, context) ==
    [agent |-> "knowledge", method |-> "answer_question",
     self |-> self, question |-> question, context |-> context]

\* How a call ends.  explain_prediction and suggest_interventions subscript
\* their prediction first (a TypeError on None); compare_predictions reads
\* analysis['r1'], which _calculate_changes leaves unset when result1 is None
\* (a KeyError); answer_question catches what it meets.  suggest_interventions
\* also calls feature_values.get for every risk-increasing contribution
\* (intervention_agent.py:92), an AttributeError when feature_values is None,
\* which it is for a what-if result whose patientData is null (app.py:266-268).
Outcome(call) ==
    CASE call.method = "none" -> "none"
      [] call.method = "compare_predictions" ->
            IF call.result1 = None THEN "raised" ELSE "returned"
      [] call.method = "explain_prediction" ->
            IF call.prediction_result = None THEN "raised" ELSE "returned"
      [] call.method = "suggest_interventions" ->
            IF call.prediction_result = None THEN "raised"
            ELSE IF call.prediction_result.feature_values = None THEN "raised"
            ELSE "returned"
      [] call.method = "answer_question" -> "returned"

\* What a call of the orchestrator did: the intent it classified, the
\* capability call it made, and how it ended.
Dispatched(intent, call) ==
    [intent |-> intent, call |-> call, outcome |-> Outcome(call)]

NoDispatch == [intent |-> "none", call |-> NoCall, outcome |-> "none"]


------------------------------------------------------------------------------
(* Server threads *)

\* The threads of the development server (app.run, app.py:548): each request
\* is handled on a thread of its own; two requests at a time.
Threads == {"t1", "t2"}

\* A thread that is handling no request.
Idle == [pc |-> "idle"]

\* No chat request in flight wrote the field.
NoRequest == "none"

NotWritten ==
    [current_prediction |-> NoRequest, current_patient_data |-> NoRequest]

\* xai_orchestrator = None, app.py:50.
NoInstance == "None"

\* The server once a first chat request has built the orchestrator
\* (get_orchestrator, app.py:193-209).
ServerBuilt ==
    /\ xai_orchestrator = "orchestrator"
    /\ constructed = {"orchestrator"}
------------------------------------------------------------------------------
(* route_request *)

\* A loader that clears the scenario history when no context comes with the
\* request, and otherwise loads as load_context does.
load_context_clearing(context_data) ==
    [current_patient_data |->
        IF "patient_data" \in context_data.keys
        THEN context_data.patient_data ELSE current_patient_data,
     current_prediction |->
        IF "prediction" \in context_data.keys
        THEN context_data.prediction ELSE current_prediction,
     updated_scenarios |->
        IF "updated_scenarios" \in context_data.keys
        THEN context_data.updated_scenarios
        ELSE IF context_data.keys = {} THEN <<>> ELSE updated_scenarios]

\* Lines 109-114: what the session holds once the context is loaded.  An empty
\* or missing context loads nothing.
load_context(context_data) ==
    IF context_data.keys = {}
    THEN [current_patient_data |-> current_patient_data,
          current_prediction |-> current_prediction,
          updated_scenarios |-> updated_scenarios]
    ELSE [current_patient_data |->
              IF "patient_data" \in context_data.keys
              THEN context_data.patient_data ELSE current_patient_data,
          current_prediction |->
              IF "prediction" \in context_data.keys
              THEN context_data.prediction ELSE current_prediction,
          updated_scenarios |->
              IF "updated_scenarios" \in context_data.keys
              THEN context_data.updated_scenarios ELSE updated_scenarios]

\* Lines 119-136: the agents once the context's flags are written into them.
\* context_data.get(flag) is None when the key is missing.
apply_settings(context_data) ==
    LET given == context_data.keys # {}
        pubmed == given /\ "use_pubmed" \in context_data.keys
        guideline == given /\ "use_guidelines" \in context_data.keys
    IN  [knowledge_agent |->
            IF knowledge_agent = None THEN None
            ELSE [use_rag |-> IF guideline THEN context_data.use_guidelines
                              ELSE knowledge_agent.use_rag,
                  use_pubmed |-> IF pubmed THEN context_data.use_pubmed
                                 ELSE knowledge_agent.use_pubmed],
         explanation_agent |->
            IF explanation_agent # None /\ guideline
            THEN [use_rag |-> context_data.use_guidelines]
            ELSE explanation_agent,
         intervention_agent |->
            IF intervention_agent # None /\ guideline
            THEN [use_rag |-> context_data.use_guidelines]
            ELSE intervention_agent]

\* An explanation route that compares against the first scenario.
route_explanation_first(user_message, s, a) ==
    IF IsComparison[user_message] /\ s.updated_scenarios # <<>>
    THEN compare_predictions(a.explanation_agent, s.current_prediction,
                             s.updated_scenarios[1])
    ELSE explain_prediction(a.explanation_agent, s.current_prediction)

\* Lines 152-165: the explanation route.  s is the session, a the agents.
route_explanation(user_message, s, a) ==
    IF IsComparison[user_message] /\ s.updated_scenarios # <<>>
    THEN compare_predictions(a.explanation_agent, s.current_prediction,
                             s.updated_scenarios[Len(s.updated_scenarios)])
    ELSE explain_prediction(a.explanation_agent, s.current_prediction)

\* An intervention route that plans for the latest scenario when there is one.
route_intervention_latest(user_message, s, a) ==
    IF IsSpecificQuestion[user_message] /\ a.knowledge_agent # None
    THEN answer_question(a.knowledge_agent, user_message,
                         [patient_data |-> s.current_patient_data,
                          prediction |-> s.current_prediction])
    ELSE suggest_interventions(a.intervention_agent,
            IF s.updated_scenarios # <<>>
            THEN s.updated_scenarios[Len(s.updated_scenarios)]
            ELSE s.current_prediction)

\* Lines 169-177: the intervention route and its reroute of direct questions.
route_intervention(user_message, s, a) ==
    IF IsSpecificQuestion[user_message] /\ a.knowledge_agent # None
    THEN answer_question(a.knowledge_agent, user_message,
                         [patient_data |-> s.current_patient_data,
                          prediction |-> s.current_prediction])
    ELSE suggest_interventions(a.intervention_agent, s.current_prediction)

\* Lines 142-189: classify, then the first route whose agent exists; with no
\* knowledge agent to fall back on, the "not fully initialized" text.
route(user_message, s, a) ==
    LET intent == IntentOf[user_message] IN
    IF intent = "explanation" /\ a.explanation_agent # None
    THEN Dispatched(intent, route_explanation(user_message, s, a))
    ELSE IF intent = "intervention" /\ a.intervention_agent # None
    THEN Dispatched(intent, route_intervention(user_message, s, a))
    ELSE IF a.knowledge_agent # None
    THEN Dispatched(intent,
            answer_question(a.knowledge_agent, user_message,
                            [patient_data |-> s.current_patient_data,
                             prediction |-> s.current_prediction]))
    ELSE [intent |-> intent, call |-> NoCall, outcome |-> "not_initialized"]

\* What the model remembers of a call: the operation, the message, whether a
\* context came with it (`if context_data:`) and which flags it carried.
Request(op, user_message, context_data) ==
    [op |-> op, user_message |-> user_message,
     has_context |-> context_data.keys # {},
     overrides |-> context_data.keys \cap {"use_pubmed", "use_guidelines"}]

\* route_request(user_message, context_data), lines 103-189.  The debug print
\* of line 138 reads self.knowledge_agent.use_pubmed: with a context and no
\* knowledge agent it raises AttributeError, after the context was loaded and
\* before anything is dispatched.
RouteRequest(user_message, context_data) ==
    LET s == load_context(context_data)
        a == apply_settings(context_data)
    IN  /\ current_patient_data' = s.current_patient_data
        /\ current_prediction' = s.current_prediction
        /\ updated_scenarios' = s.updated_scenarios
        /\ knowledge_agent' = a.knowledge_agent
        /\ explanation_agent' = a.explanation_agent
        /\ intervention_agent' = a.intervention_agent
        /\ request' = Request("route_request", user_message, context_data)
        /\ dispatch' =
              IF context_data.keys # {} /\ knowledge_agent = None
              THEN [intent |-> "none", call |-> NoCall, outcome |-> "raised"]
              ELSE route(user_message, s, a)
        /\ written_by' =
              [current_prediction |->
                  IF "prediction" \in context_data.keys
                  THEN NoRequest ELSE written_by.current_prediction,
               current_patient_data |->
                  IF "patient_data" \in context_data.keys
                  THEN NoRequest ELSE written_by.current_patient_data]
        /\ UNCHANGED <<chat, prediction_agent, startup, core>>

------------------------------------------------------------------------------
(* analyze_patient *)

\* analyze_patient(patient_data), lines 193-217: the prediction becomes the
\* current one, then the explanation and the intervention agents are asked.
AnalyzePatient(patient_data) ==
    LET prediction == PredictionOf(patient_data) IN
    /\ current_prediction' = prediction
    /\ current_patient_data' = patient_data
    /\ request' = Request("analyze_patient", "", NoContext)
    /\ dispatch' =
          IF intervention_agent # None
          THEN Dispatched("none", suggest_interventions(intervention_agent, prediction))
          ELSE IF explanation_agent # None
          THEN Dispatched("none", explain_prediction(explanation_agent, prediction))
          ELSE NoDispatch
    /\ written_by' = NotWritten
    /\ UNCHANGED <<updated_scenarios, agents, chat, prediction_agent, startup, core>>

------------------------------------------------------------------------------
(* Specifications *)

\* __init__, lines 21-61, and the server before its first chat request.  The
\* three LLM agents are built in the order explanation, knowledge,
\* intervention inside one try: a missing key leaves none, a constructor that
\* raises leaves the ones built before it.  The flags are the constructor's
\* defaults (use_rag=True, use_pubmed=True), the retrieval services being
\* installed.  load_model() (line 55) sets is_loaded, or fails and is ignored.
__init__(built, is_loaded) ==
    LET \* The numeric core has not been called.
        NotCalled == [op |-> "none"]
    IN
    LET use_rag == TRUE
        use_pubmed == TRUE
    IN
    /\ explanation_agent = IF built >= 1 THEN [use_rag |-> use_rag] ELSE None
    /\ knowledge_agent = IF built >= 2
                         THEN [use_rag |-> use_rag, use_pubmed |-> use_pubmed]
                         ELSE None
    /\ intervention_agent = IF built >= 3 THEN [use_rag |-> use_rag] ELSE None
    /\ prediction_agent = [is_loaded |-> is_loaded]
    /\ current_prediction = None
    /\ current_patient_data = None
    /\ updated_scenarios = <<>>
    /\ request = Request("init", "", NoContext)
    /\ dispatch = NoDispatch
    /\ chat = [t \in Threads |-> Idle]
    /\ written_by = NotWritten
    /\ core = NotCalled

\* The orchestrator with its model files loaded, with any number of agents.
Init == ServerBuilt /\ \E built \in 0..3 : __init__(built, TRUE)

\* analyze_patient on either record.
Analyze == \E r \in PatientRecords : AnalyzePatient(r)

\* The messages that take each route once.
SessionMessages ==
    { MsgCompareExplain, MsgPlan, MsgPlanQuestion, MsgDefault }

\* Spec: the session under route_request with any data context.
RouteSession ==
    LET \* Contexts that carry session data and no retrieval flag.
        DataContexts ==
            { Context(keys, pd, pr, us, FALSE, FALSE) :
                keys \in SUBSET {"patient_data", "prediction", "updated_scenarios"},
                pd \in PatientRecords, pr \in Predictions,
                us \in Histories(MaxHistory) }
    IN
    \E m \in SessionMessages, c \in DataContexts : RouteRequest(m, c)

Next == RouteSession \/ Analyze

Spec == Init /\ [][Next]_vars

\* SpecIntent: every message, over a scenario history that comes and goes.
RouteIntent ==
    LET \* Contexts that carry at most a scenario history.
        HistoryContexts ==
            { Context(keys, None, None, us, FALSE, FALSE) :
                keys \in SUBSET {"updated_scenarios"}, us \in Histories(MaxHistory) }
    IN
    \E m \in Messages, c \in HistoryContexts : RouteRequest(m, c)

NextIntent == RouteIntent \/ Analyze

SpecIntent == Init /\ [][NextIntent]_vars

\* SpecToggle: requests that carry retrieval flags, and requests that do not.
RouteToggle ==
    LET \* Contexts that carry retrieval flags, with or without a patient record.
        FlagContexts ==
            { Context(keys, pd, None, <<>>, up, ug) :
                keys \in SUBSET {"patient_data", "use_pubmed", "use_guidelines"},
                pd \in PatientRecords, up \in BOOLEAN, ug \in BOOLEAN }
    IN
    \E m \in SessionMessages, c \in FlagContexts : RouteRequest(m, c)

NextToggle == RouteToggle \/ Analyze

SpecToggle == Init /\ [][NextToggle]_vars


------------------------------------------------------------------------------
(* The chat endpoint, app.py *)

\* analyze_message_intent, app.py:280-303.  An explanation keyword counts only
\* together with an attribution word; the knowledge rule and the default agree.
analyze_message_intent(message) ==
    LET message_lower == Lower(message) IN
    IF AnyIn(explanation_keywords, message_lower)
       /\ AnyIn(attribution_words, message_lower)
    THEN "explanation"
    ELSE IF AnyIn(intervention_keywords, message_lower) THEN "intervention"
    ELSE "knowledge"

\* is_comparison_query, app.py:367-371.
is_comparison_query(user_message) ==
    AnyIn(comparison_query_keywords, Lower(user_message))

\* Both on every message of the model, computed once.
ChatIntentOf == [m \in Messages |-> analyze_message_intent(Text[m])]
IsComparisonQuery == [m \in Messages |-> is_comparison_query(Text[m])]

\* The JSON context of a chat request.  patientData None stands for a missing
\* or empty record; a what-if result carries the record it was computed from.
ChatContext(patientData, riskScore, updatedResults, guidelines, pubmed) ==
    [patientData |-> patientData, riskScore |-> riskScore,
     updatedResults |-> updatedResults,
     useGuidelineSources |-> guidelines, usePubmedSources |-> pubmed]

\* app.py:211-220: the record, its values as floats; {} when there is none.
prepare_patient_data_from_context(context) == context.patientData

\* float(risk_score_str) on the risk scores of the model, in hundredths: the
\* client sends the score as the text of a percentage ("62" is 62 percent).
\* A text outside the table does not parse (ValueError).
float ==
    [ s \in {"0", "0.3", "0.5", "0.7", "1", "30", "62", "70", "100", "150"} |->
        CASE s = "0" -> 0
          [] s = "0.3" -> 30
          [] s = "0.5" -> 50
          [] s = "0.7" -> 70
          [] s = "1" -> 100
          [] s = "30" -> 3000
          [] s = "62" -> 6200
          [] s = "70" -> 7000
          [] s = "100" -> 10000
          [] s = "150" -> 15000 ]

\* app.py:339-342 and 251-254: the probability stored for a risk score text,
\* in units of 1/10000.  A value above 1 is taken for a percentage and
\* divided by 100; a value of at most 1 is taken for a probability.
to_probability(risk_score_str) ==
    LET risk_score == float[risk_score_str] IN
    IF risk_score > 100 THEN risk_score ELSE risk_score * 100

\* app.py:346 and 271: the risk level the endpoint attaches.
chat_risk_level(risk_score) ==
    IF risk_score > 7000 THEN "High"
    ELSE IF risk_score > 3000 THEN "Moderate"
    ELSE "Low"

\* The prediction dict of app.py:344-349 and 269-274 (without its
\* shap_values).
ChatPrediction(risk_score, patient_data) ==
    [risk_score |-> risk_score,
     risk_level |-> chat_risk_level(risk_score),
     feature_values |-> patient_data]

\* result.get('riskScore', ''), app.py:250.
riskScore_of(result) ==
    IF "riskScore" \in DOMAIN result THEN result.riskScore ELSE ""

\* app.py:240-278: one prediction result per what-if result, in order; an
\* empty risk score counts as 0.0, a result whose risk score does not parse
\* is skipped.
prepare_updated_results_from_context(context) ==
    LET parsed == SelectSeq(context.updatedResults,
                      LAMBDA result : riskScore_of(result) = ""
                                      \/ riskScore_of(result) \in DOMAIN float)
    IN  [i \in 1..Len(parsed) |->
            ChatPrediction(IF riskScore_of(parsed[i]) = "" THEN 0
                           ELSE to_probability(riskScore_of(parsed[i])),
                           parsed[i].patientData)]

\* app.py:328-343: the request carries a record and a risk score that
\* parses, to store.
has_prediction(context) ==
    /\ prepare_patient_data_from_context(context) # None
    /\ context.riskScore \notin {"", "N/A"}
    /\ context.riskScore \in DOMAIN float

\* The locals of chat() when the handler starts, app.py:308-324.  The saved
\* flags and the values read are not assigned yet (FALSE, None).
ChatLocals(user_message, context, pc) ==
    [pc |-> pc, user_message |-> user_message, context |-> context,
     original_use_rag |-> FALSE, original_use_pubmed |-> FALSE,
     prediction |-> None, patient_data |-> None,
     prediction_from |-> NoRequest, patient_from |-> NoRequest,
     scenario_from |-> NoRequest,
     call |-> NoCall, outcome |-> "none"]

\* The line the handler goes to once the comparison test of line 374 is
\* decided false: the intent tests of lines 395 and 422, else line 446.
after_comparison_test(user_message) ==
    IF ChatIntentOf[user_message] = "explanation" THEN "L395"
    ELSE IF ChatIntentOf[user_message] = "intervention" THEN "L422"
    ELSE "L446"

\* The line after the session is updated: line 374 reads current_prediction
\* only when the message is a comparison query and the request has scenarios.
after_update(user_message, context) ==
    IF IsComparisonQuery[user_message] /\ context.updatedResults # <<>>
    THEN "L374"
    ELSE after_comparison_test(user_message)

\* orchestrator.ask_question(question), orchestrator.py:219-222, entered from
\* lines 394, 421, 441 and 465 when the branch's agent is missing.
ask_question_entry == IF knowledge_agent = None THEN "L467" ELSE "L227"

\* chat(), app.py:308-334: the request is parsed, get_orchestrator() returns
\* the orchestrator the server has built, the record and the what-if results
\* are prepared.
ChatBegin(t, user_message, context) ==
    /\ chat[t].pc = "idle"
    /\ chat' = [chat EXCEPT ![t] =
                  ChatLocals(user_message, context,
                             IF has_prediction(context) THEN "L344" ELSE "L356")]
    /\ UNCHANGED <<session, agents, request, dispatch, written_by,
                   prediction_agent, startup, core>>

\* app.py:344-349: orchestrator.current_prediction = {...}
ChatSetPrediction(t) ==
    /\ chat[t].pc = "L344"
    /\ current_prediction' =
          ChatPrediction(to_probability(chat[t].context.riskScore),
                         prepare_patient_data_from_context(chat[t].context))
    /\ written_by' = [written_by EXCEPT !.current_prediction = t]
    /\ chat' = [chat EXCEPT ![t].pc = "L350"]
    /\ UNCHANGED <<current_patient_data, updated_scenarios, agents,
                   request, dispatch, prediction_agent, startup, core>>

\* app.py:350: orchestrator.current_patient_data = patient_data
ChatSetPatientData(t) ==
    /\ chat[t].pc = "L350"
    /\ current_patient_data' = prepare_patient_data_from_context(chat[t].context)
    /\ written_by' = [written_by EXCEPT !.current_patient_data = t]
    /\ chat' = [chat EXCEPT ![t].pc = "L356"]
    /\ UNCHANGED <<current_prediction, updated_scenarios, agents,
                   request, dispatch, prediction_agent, startup, core>>

\* app.py:356-363: orchestrator.updated_scenarios = updated_results, or [].
ChatSetScenarios(t) ==
    /\ chat[t].pc = "L356"
    /\ updated_scenarios' = prepare_updated_results_from_context(chat[t].context)
    /\ chat' = [chat EXCEPT ![t].pc =
                  after_update(chat[t].user_message, chat[t].context)]
    /\ UNCHANGED <<current_prediction, current_patient_data, agents,
                   request, dispatch, written_by,
                   prediction_agent, startup, core>>

\* The tests that read orchestrator.current_prediction for its truth value:
\* app.py:374, 395, 422 and, inside ask_question, orchestrator.py:227.
ChatTestPrediction(t) ==
    LET l == chat[t]
        truthy == current_prediction # None
        next ==
          CASE l.pc = "L374" ->
                  IF ~truthy THEN after_comparison_test(l.user_message)
                  ELSE IF explanation_agent # None THEN "L377"
                  ELSE ask_question_entry
            [] l.pc = "L395" ->
                  IF ~truthy THEN "L446"
                  ELSE IF explanation_agent # None THEN "L399"
                  ELSE ask_question_entry
            [] l.pc = "L422" ->
                  IF ~truthy THEN "L446"
                  ELSE IF intervention_agent # None THEN "L426"
                  ELSE ask_question_entry
            [] l.pc = "L227" -> IF truthy THEN "L225" ELSE "L229"
    IN  /\ l.pc \in {"L374", "L395", "L422", "L227"}
        /\ chat' = [chat EXCEPT ![t].pc = next]
        /\ UNCHANGED <<session, agents, request, dispatch, written_by,
                   prediction_agent, startup, core>>

\* The reads of orchestrator.current_prediction into a context dict:
\* app.py:446 and orchestrator.py:225.
ChatReadPrediction(t) ==
    /\ chat[t].pc \in {"L446", "L225"}
    /\ chat' = [chat EXCEPT ![t].prediction = current_prediction,
                            ![t].prediction_from = written_by.current_prediction,
                            ![t].pc = IF chat[t].pc = "L446" THEN "L447" ELSE "L226"]
    /\ UNCHANGED <<session, agents, request, dispatch, written_by,
                   prediction_agent, startup, core>>

\* The reads of orchestrator.current_patient_data that follow: app.py:447
\* (then the agent test of line 453) and orchestrator.py:226.
ChatReadPatientData(t) ==
    /\ chat[t].pc \in {"L447", "L226"}
    /\ chat' = [chat EXCEPT ![t].patient_data = current_patient_data,
                            ![t].patient_from = written_by.current_patient_data,
                            ![t].pc = IF chat[t].pc = "L226" THEN "L229"
                                      ELSE IF knowledge_agent # None THEN "L454"
                                      ELSE ask_question_entry]
    /\ UNCHANGED <<session, agents, request, dispatch, written_by,
                   prediction_agent, startup, core>>

\* original_use_rag = agent.use_rag (app.py:377, 399, 426, 454) and
\* original_use_pubmed = knowledge_agent.use_pubmed (455); then the toggle
\* tests of lines 378, 400, 427, 456 and 458, which read the request only.
ChatSaveFlag(t) ==
    LET l == chat[t]
        guidelines == l.context.useGuidelineSources
        pubmed == l.context.usePubmedSources
    IN  /\ l.pc \in {"L377", "L399", "L426", "L454", "L455"}
        /\ chat' =
             CASE l.pc = "L377" ->
                    [chat EXCEPT ![t].original_use_rag = explanation_agent.use_rag,
                                 ![t].pc = IF guidelines THEN "L383" ELSE "L379"]
               [] l.pc = "L399" ->
                    [chat EXCEPT ![t].original_use_rag = explanation_agent.use_rag,
                                 ![t].pc = IF guidelines THEN "L405" ELSE "L401"]
               [] l.pc = "L426" ->
                    [chat EXCEPT ![t].original_use_rag = intervention_agent.use_rag,
                                 ![t].pc = IF guidelines THEN "L432" ELSE "L428"]
               [] l.pc = "L454" ->
                    [chat EXCEPT ![t].original_use_rag = knowledge_agent.use_rag,
                                 ![t].pc = "L455"]
               [] l.pc = "L455" ->
                    [chat EXCEPT ![t].original_use_pubmed = knowledge_agent.use_pubmed,
                                 ![t].pc = IF ~guidelines THEN "L457"
                                           ELSE IF ~pubmed THEN "L459"
                                           ELSE "L460"]
        /\ UNCHANGED <<session, agents, request, dispatch, written_by,
                   prediction_agent, startup, core>>

\* agent.use_rag = False (app.py:379, 401, 428, 457) and
\* knowledge_agent.use_pubmed = False (459), for a toggle that is off.
ChatDisableSource(t) ==
    LET l == chat[t] IN
    /\ l.pc \in {"L379", "L401", "L428", "L457", "L459"}
    /\ explanation_agent' =
          IF l.pc \in {"L379", "L401"}
          THEN [explanation_agent EXCEPT !.use_rag = FALSE]
          ELSE explanation_agent
    /\ intervention_agent' =
          IF l.pc = "L428"
          THEN [intervention_agent EXCEPT !.use_rag = FALSE]
          ELSE intervention_agent
    /\ knowledge_agent' =
          IF l.pc = "L457" THEN [knowledge_agent EXCEPT !.use_rag = FALSE]
          ELSE IF l.pc = "L459" THEN [knowledge_agent EXCEPT !.use_pubmed = FALSE]
          ELSE knowledge_agent
    /\ chat' = [chat EXCEPT ![t].pc =
                  CASE l.pc = "L379" -> "L383"
                    [] l.pc = "L401" -> "L405"
                    [] l.pc = "L428" -> "L432"
                    [] l.pc = "L457" ->
                          IF ~l.context.usePubmedSources THEN "L459" ELSE "L460"
                    [] l.pc = "L459" -> "L460"]
    /\ UNCHANGED <<session, request, dispatch, written_by,
                   prediction_agent, startup, core>>

\* The capability call of each branch, with the arguments it evaluates on the
\* way: compare_predictions (app.py:382-388), explain_prediction (405-415),
\* suggest_interventions (431-435), answer_question (460, on the context dict
\* of lines 445-451) and ask_question's answer_question (orchestrator.py:
\* 224-229).  An exception leaves for the handler of line 471.
ChatCall(t) ==
    LET l == chat[t]
        updated_results == prepare_updated_results_from_context(l.context)
        latest_updated == updated_results[Len(updated_results)]
        call ==
          CASE l.pc = "L383" ->
                  compare_predictions(explanation_agent, current_prediction,
                                      latest_updated)
            [] l.pc = "L405" ->
                  explain_prediction(explanation_agent, current_prediction)
            [] l.pc = "L432" ->
                  suggest_interventions(intervention_agent,
                      IF updated_results # <<>> THEN latest_updated
                      ELSE current_prediction)
            [] l.pc = "L460" ->
                  answer_question(knowledge_agent, l.user_message,
                      [prediction |-> l.prediction,
                       patient_data |-> l.patient_data,
                       updated_scenarios_count |-> Len(updated_results),
                       use_guideline_sources |-> l.context.useGuidelineSources,
                       use_pubmed_sources |-> l.context.usePubmedSources])
            [] l.pc = "L229" ->
                  answer_question(knowledge_agent, l.user_message,
                      IF l.prediction = None THEN None
                      ELSE [prediction |-> l.prediction,
                            patient_data |-> l.patient_data])
        reads_session ==
            l.pc \in {"L383", "L405"} \/ (l.pc = "L432" /\ updated_results = <<>>)
        returns ==
          CASE l.pc = "L383" -> "L392"
            [] l.pc = "L405" -> "L419"
            [] l.pc = "L432" -> "L439"
            [] l.pc = "L460" -> "L462"
            [] l.pc = "L229" -> "L467"
    IN  /\ l.pc \in {"L383", "L405", "L432", "L460", "L229"}
        /\ chat' = [chat EXCEPT
              ![t].call = call,
              ![t].outcome = Outcome(call),
              ![t].prediction_from =
                  IF reads_session THEN written_by.current_prediction
                  ELSE IF l.pc = "L432" THEN t
                  ELSE l.prediction_from,
              ![t].scenario_from =
                  IF l.pc = "L383" \/ (l.pc = "L432" /\ updated_results # <<>>)
                  THEN t ELSE NoRequest,
              ![t].pc = IF Outcome(call) = "raised" THEN "L471" ELSE returns]
        /\ UNCHANGED <<session, agents, request, dispatch, written_by,
                   prediction_agent, startup, core>>

\* agent.use_rag = original_use_rag (app.py:392, 419, 439, 462) and
\* knowledge_agent.use_pubmed = original_use_pubmed (463).
ChatRestoreFlag(t) ==
    LET l == chat[t] IN
    /\ l.pc \in {"L392", "L419", "L439", "L462", "L463"}
    /\ explanation_agent' =
          IF l.pc \in {"L392", "L419"}
          THEN [explanation_agent EXCEPT !.use_rag = l.original_use_rag]
          ELSE explanation_agent
    /\ intervention_agent' =
          IF l.pc = "L439"
          THEN [intervention_agent EXCEPT !.use_rag = l.original_use_rag]
          ELSE intervention_agent
    /\ knowledge_agent' =
          IF l.pc = "L462"
          THEN [knowledge_agent EXCEPT !.use_rag = l.original_use_rag]
          ELSE IF l.pc = "L463"
          THEN [knowledge_agent EXCEPT !.use_pubmed = l.original_use_pubmed]
          ELSE knowledge_agent
    /\ chat' = [chat EXCEPT ![t].pc = IF l.pc = "L462" THEN "L463" ELSE "L467"]
    /\ UNCHANGED <<session, request, dispatch, written_by,
                   prediction_agent, startup, core>>

\* The response: app.py:467-470 with the capability's text (or
\* ask_question's "Knowledge agent not available."), lines 471-482 with the
\* rule-based text after an exception.  The request is no longer in flight.
ChatReturn(t) ==
    /\ chat[t].pc \in {"L467", "L471"}
    /\ chat' = [chat EXCEPT ![t] = Idle]
    /\ written_by' =
          [f \in DOMAIN written_by |->
              IF written_by[f] = t THEN NoRequest ELSE written_by[f]]
    /\ UNCHANGED <<session, agents, request, dispatch, prediction_agent, startup, core>>

\* Messages for the comparison, the intervention and the knowledge branch of
\* the handler.
ChatMessages == { MsgCompareExplain, MsgPlan, MsgDefault }

\* The chat requests of SpecChat: every message, with a record and its risk
\* score or without, with a what-if result or without, both source toggles
\* on (the default of lines 313-314).
ChatContexts ==
    LET \* The what-if results a chat request carries: none, or one scenario.
        UpdatedResults == { <<>>, <<[patientData |-> [anchor_age |-> 70]]>> }
    IN
    { ChatContext(pd, "62", ur, TRUE, TRUE) :
        pd \in PatientRecords \cup {None}, ur \in UpdatedResults }

\* The server once get_orchestrator() has built the orchestrator with an API
\* key, all three agents constructed.
InitChat == Init /\ intervention_agent # None

\* SpecChat: POST /api/chat requests on the threads of the server, every
\* interleaving of their steps.  No request of ChatContexts turns a source
\* off, so no thread comes to a line of ChatDisableSource.
Chat ==
    \E t \in Threads, m \in ChatMessages, c \in ChatContexts : ChatBegin(t, m, c)

ChatSteps ==
    \E t \in Threads :
        \/ ChatSetPrediction(t)
        \/ ChatSetPatientData(t)
        \/ ChatSetScenarios(t)
        \/ ChatTestPrediction(t)
        \/ ChatReadPrediction(t)
        \/ ChatReadPatientData(t)
        \/ ChatSaveFlag(t)
        \/ ChatCall(t)
        \/ ChatRestoreFlag(t)
        \/ ChatReturn(t)

NextChat == Chat \/ ChatSteps

SpecChat == InitChat /\ [][NextChat]_vars

\* SpecSessions: two client sessions, each with a patient record of its own,
\* and the server serving each on a thread.  The handler takes no session
\* identifier from the request (app.py:308-314), so a session is known here
\* only by the data it sends.
SessionRecord ==
    [t \in Threads |-> IF t = "t1" THEN [anchor_age |-> 45] ELSE [anchor_age |-> 70]]

ChatOfSession ==
    LET \* The requests of the session served on thread t: its own record or none,
        \* a what-if result on its own record or none.
        SessionContexts(t) ==
            { ChatContext(pd, "62", ur, TRUE, TRUE) :
                pd \in {None, SessionRecord[t]},
                ur \in {<<>>, <<[patientData |-> SessionRecord[t]]>>} }
    IN
    \E t \in Threads :
        \E m \in ChatMessages, c \in SessionContexts(t) : ChatBegin(t, m, c)

NextSessions == ChatOfSession \/ ChatSteps

SpecSessions == InitChat /\ [][NextSessions]_vars

\* Every step of the handler on thread t, the lines that turn a source off
\* included.
ChatStep(t) ==
    \/ ChatSetPrediction(t)
    \/ ChatSetPatientData(t)
    \/ ChatSetScenarios(t)
    \/ ChatTestPrediction(t)
    \/ ChatReadPrediction(t)
    \/ ChatReadPatientData(t)
    \/ ChatSaveFlag(t)
    \/ ChatDisableSource(t)
    \/ ChatCall(t)
    \/ ChatRestoreFlag(t)
    \/ ChatReturn(t)

\* SpecSources: requests with source toggles on the threads of the server,
\* every interleaving of their steps.
ChatWithSources ==
    LET SourceContexts ==
            { ChatContext([anchor_age |-> 45], "62", <<>>, sources, sources) :
                sources \in BOOLEAN }
    IN
    LET \* The chat requests of SpecSources: a record with its risk score, no what-if
        \* result, and the two source toggles both on or both off.
        SourceMessages == { MsgPlan, MsgDefault }
    IN
    \E t \in Threads, m \in SourceMessages, c \in SourceContexts :
        ChatBegin(t, m, c)

StepsWithSources == \E t \in Threads : ChatStep(t)

NextSources == ChatWithSources \/ StepsWithSources

SpecSources == InitChat /\ [][NextSources]_vars

ChatOneRequest ==
    LET OneRequestContexts ==
            { ChatContext(pd, "62", ur, guidelines, pubmed) :
                pd \in {None, [anchor_age |-> 45]},
                ur \in { <<>>, <<[patientData |-> None]>>,
                         <<[patientData |-> [anchor_age |-> 70]]>> },
                guidelines \in BOOLEAN, pubmed \in BOOLEAN }
    IN
    LET \* SpecOneRequest: the same handler with one request in flight at a time, on
        \* every message of the model.
        OneRequestMessages == Messages
    IN
    \E m \in OneRequestMessages, c \in OneRequestContexts : ChatBegin("t1", m, c)

NextOneRequest == ChatOneRequest \/ ChatStep("t1")

SpecOneRequest == InitChat /\ [][NextOneRequest]_vars

ChatWithRisk ==
    LET \* SpecRisk: one request at a time, with every risk score text of the model
        \* for the current prediction and for a what-if result, one that does not
        \* parse included.
        RiskScoreTexts == DOMAIN float \cup {"", "N/A", "high"}
    IN
    LET RiskContexts ==
            { ChatContext([anchor_age |-> 45], riskScore, ur, sources, sources) :
                riskScore \in RiskScoreTexts,
                ur \in { <<>> } \cup
                       { <<[riskScore |-> s, patientData |-> [anchor_age |-> 70]]>> :
                           s \in RiskScoreTexts \ {"N/A"} },
                sources \in BOOLEAN }
    IN
    \E m \in {MsgPlan, MsgDefault}, c \in RiskContexts : ChatBegin("t1", m, c)

NextRisk == ChatWithRisk \/ ChatStep("t1")

SpecRisk == InitChat /\ [][NextRisk]_vars

------------------------------------------------------------------------------
(* The inference paths *)

\* list(FEATURE_INFO.keys()), config.py:25-152: the required features.
FEATURE_INFO ==
    << "anchor_age", "White Blood Cells", "Urea Nitrogen", "Neutrophils", "BMI",
       "Monocytes", "Glucose", "systolic", "MCH", "Calcium, Total", "Lymphocytes",
       "Creatinine", "Sodium", "diastolic", "PT", "imatinib_dose", "dasatinib_dose",
       "nilotinib_dose", "ponatinib_dose", "ruxolitinib_dose", "gender_encoded" >>

\* FEATURE_ORDER, app.py:69-74: the column order of the /api/predict endpoints.
FEATURE_ORDER ==
    << "anchor_age", "White Blood Cells", "Urea Nitrogen", "Neutrophils", "BMI",
       "Monocytes", "Glucose", "systolic", "MCH", "Calcium, Total", "Lymphocytes",
       "Creatinine", "Sodium", "diastolic", "PT", "imatinib_dose", "dasatinib_dose",
       "gender_encoded", "nilotinib_dose", "ponatinib_dose", "ruxolitinib_dose" >>

\* A Python dict is a sequence of [key, value] in insertion order.  A value is
\* a number or missing (JSON null, None, NaN in a frame).
NaN == [nan |-> TRUE]
Number(n) == [number |-> n]

keys(d) == [i \in 1..Len(d) |-> d[i].key]
has_key(d, k) == \E i \in 1..Len(d) : d[i].key = k
get(d, k, default) ==
    IF has_key(d, k) THEN d[CHOOSE i \in 1..Len(d) : d[i].key = k].value
    ELSE default

\* A cell of a frame or array: its value, the key of the request it was taken
\* from, and the transforms applied to it so far, in order.
Cell(key, value) == [from |-> key, value |-> value, applied |-> <<>>]

\* pd.DataFrame([patient_data]), prediction_agent.py:75: one row, the columns
\* in the key order of the dict.
DataFrame(patient_data) ==
    [columns |-> keys(patient_data),
     cells |-> [i \in 1..Len(patient_data) |->
                   Cell(patient_data[i].key, patient_data[i].value)]]

\* input_df, app.py:89-92 and 161-164: one row, the columns in FEATURE_ORDER,
\* None for a feature the request lacks.
input_df(input_json) ==
    [columns |-> FEATURE_ORDER,
     cells |-> [i \in 1..Len(FEATURE_ORDER) |->
                   Cell(FEATURE_ORDER[i], get(input_json, FEATURE_ORDER[i], NaN))]]

\* frame.values: the cells without the column names.
values(frame) == [columns |-> <<>>, cells |-> frame.cells]

\* An exception instead of a value.
Raised(exception) == [raised |-> exception]
IsRaised(x) == "raised" \in DOMAIN x

\* The pretrained imputer's transform (models/RF_imputer_allCVD.pkl): a array
\* of the fitted width, each missing value replaced by the column's learned
\* statistic, the other values kept.
imputer_transform(X) ==
    IF Len(X.cells) # Len(FEATURE_ORDER) THEN Raised("ValueError")
    ELSE [columns |-> <<>>,
          cells |-> [i \in 1..Len(X.cells) |->
              [from |-> X.cells[i].from,
               value |-> IF X.cells[i].value = NaN
                         THEN [imputed |-> i] ELSE X.cells[i].value,
               applied |-> Append(X.cells[i].applied, "imputer")]]]

\* The pretrained scaler's transform (models/RF_scaler_allCVD.pkl): an array
\* of the fitted width, each value scaled by its column's learned statistics,
\* a missing value left missing.  A scaler that was fitted on a frame checks
\* the column names of a frame it is given against the fitted ones.
scaler_transform(X, fitted_on_frame) ==
    IF Len(X.cells) # Len(FEATURE_ORDER) THEN Raised("ValueError")
    ELSE IF fitted_on_frame /\ X.columns # <<>> /\ X.columns # FEATURE_ORDER
    THEN Raised("ValueError")
    ELSE [columns |-> <<>>,
          cells |-> [i \in 1..Len(X.cells) |->
              [from |-> X.cells[i].from,
               value |-> IF X.cells[i].value = NaN
                         THEN NaN ELSE [scaled |-> X.cells[i].value, column |-> i],
               applied |-> Append(X.cells[i].applied, "scaler")]]]

\* A validator that reports the first missing feature only.
validate_patient_data_first(patient_data) ==
    LET missing_features ==
            SelectSeq(FEATURE_INFO, LAMBDA f : ~has_key(patient_data, f))
    IN  IF missing_features # <<>>
        THEN [is_valid |-> FALSE, missing_features |-> <<Head(missing_features)>>]
        ELSE [is_valid |-> TRUE, missing_features |-> <<>>]

\* PredictionAgent.validate_patient_data, prediction_agent.py:46-62; the
\* message is "Missing features: " and the missing features joined by ", ".
validate_patient_data(patient_data) ==
    LET missing_features ==
            SelectSeq(FEATURE_INFO, LAMBDA f : ~has_key(patient_data, f))
    IN  IF missing_features # <<>>
        THEN [is_valid |-> FALSE, missing_features |-> missing_features]
        ELSE [is_valid |-> TRUE, missing_features |-> <<>>]

\* PredictionAgent.preprocess_data, prediction_agent.py:64-81: the frame of
\* the record, the scaler, then the imputer.
preprocess_data(patient_data, fitted_on_frame) ==
    LET df == DataFrame(patient_data)
        data_scaled == scaler_transform(df, fitted_on_frame)
    IN  IF IsRaised(data_scaled) THEN data_scaled
        ELSE imputer_transform(data_scaled)

\* The risk levels with both thresholds taken into the lower level.
risk_level_inclusive(risk_score) ==
    IF risk_score <= 3000 THEN "Low"
    ELSE IF risk_score <= 7000 THEN "Moderate"
    ELSE "High"

\* prediction_agent.py:122-128.  A risk score is a probability in units of
\* 1/10000: 0.3 is 3000, 0.7 is 7000.
risk_level(risk_score) ==
    IF risk_score < 3000 THEN "Low"
    ELSE IF risk_score < 7000 THEN "Moderate"
    ELSE "High"

\* prediction_agent.py:130-146: the result.  The explainer's value for
\* column i is named after the i-th key of the record; sorting the dict by
\* magnitude changes no name.
prediction_result(patient_data, risk_score) ==
    [risk_score |-> risk_score,
     risk_level |-> risk_level(risk_score),
     prediction |-> IF risk_score >= 5000 THEN 1 ELSE 0,
     shap_values |->
        { [feature |-> patient_data[i].key, column |-> i] :
            i \in 1..(IF Len(patient_data) < Len(FEATURE_ORDER)
                      THEN Len(patient_data) ELSE Len(FEATURE_ORDER)) },
     feature_values |-> patient_data]

\* What a call of an inference path did: the transforms and the explainer it
\* called, in order, the vector the explainer got, and the result or the
\* exception.
Inference(op, patient_data, steps, vector, outcome, result) ==
    [op |-> op, patient_data |-> patient_data, steps |-> steps,
     vector |-> vector, outcome |-> outcome, result |-> result]

\* PredictionAgent.predict, prediction_agent.py:83-146.  risk_score is the
\* probability the explainer's values add up to; fitted_on_frame tells which
\* kind of scaler the model file holds.
predict(patient_data, risk_score, fitted_on_frame) ==
    LET validation == validate_patient_data(patient_data)
        data_processed == preprocess_data(patient_data, fitted_on_frame)
        scaled == ~IsRaised(scaler_transform(DataFrame(patient_data),
                                             fitted_on_frame))
    IN  IF ~prediction_agent.is_loaded
        THEN Inference("predict", patient_data, <<>>, <<>>,
                       "RuntimeError", None)
        ELSE IF ~validation.is_valid
        THEN Inference("predict", patient_data, <<>>, <<>>,
                       "ValueError", validation)
        ELSE IF IsRaised(data_processed)
        THEN Inference("predict", patient_data,
                       IF scaled THEN <<"scaler", "imputer">> ELSE <<"scaler">>,
                       <<>>, "ValueError", None)
        ELSE Inference("predict", patient_data,
                       <<"scaler", "imputer", "explainer">>,
                       data_processed.cells, "returned",
                       prediction_result(patient_data, risk_score))

\* predict() and predict_simple() of app.py (78-146, 150-190): the frame in
\* FEATURE_ORDER, the imputer on its values, the scaler on the imputed frame,
\* the explainer; the response carries the raw sum, not a risk level.
api_predict(op, input_json, risk_score, fitted_on_frame) ==
    LET imputed_array == imputer_transform(values(input_df(input_json)))
        imputed_df == [columns |-> FEATURE_ORDER, cells |-> imputed_array.cells]
        scaled_array == scaler_transform(imputed_df, fitted_on_frame)
    IN  Inference(op, input_json, <<"imputer", "scaler", "explainer">>,
                  scaled_array.cells, "returned",
                  [status |-> "success", prediction |-> risk_score])

\* The three inference calls.
Predict(patient_data, risk_score, fitted_on_frame) ==
    /\ core' = predict(patient_data, risk_score, fitted_on_frame)
    /\ UNCHANGED <<session, agents, request, dispatch, chat, written_by,
                   prediction_agent, startup>>

ApiPredict(input_json, risk_score, fitted_on_frame) ==
    /\ core' = api_predict("/api/predict", input_json, risk_score, fitted_on_frame)
    /\ UNCHANGED <<session, agents, request, dispatch, chat, written_by,
                   prediction_agent, startup>>

ApiPredictSimple(input_json, risk_score, fitted_on_frame) ==
    /\ core' = api_predict("/api/predict-simple", input_json, risk_score,
                           fitted_on_frame)
    /\ UNCHANGED <<session, agents, request, dispatch, chat, written_by,
                   prediction_agent, startup>>

\* The records of SpecPredict.  A record lists the features of `order` but
\* the `absent` ones, the `missing` ones with a null value, and then the
\* `extra` keys.
Record(order, absent, missing, extra) ==
    [i \in 1..Len(SelectSeq(order, LAMBDA f : f \notin absent)) |->
        LET f == SelectSeq(order, LAMBDA g : g \notin absent)[i]
        IN  [key |-> f, value |-> IF f \in missing THEN NaN ELSE Number(1)]]
    \o [i \in 1..Len(extra) |-> [key |-> extra[i], value |-> Number(1)]]

PredictRecords ==
    LET \* The key orders a client sends: that of FEATURE_INFO, that of
        \* FEATURE_ORDER, and FEATURE_INFO with its first two keys exchanged.
        KeyOrders ==
            { FEATURE_INFO, FEATURE_ORDER,
              [i \in 1..Len(FEATURE_INFO) |->
                  IF i = 1 THEN FEATURE_INFO[2]
                  ELSE IF i = 2 THEN FEATURE_INFO[1] ELSE FEATURE_INFO[i]] }
    IN
    { Record(order, absent, missing, extra) :
        order \in KeyOrders,
        absent \in SUBSET {"Calcium, Total", "PT"},
        missing \in SUBSET {"BMI"},
        extra \in {<<>>, <<"patient_id">>} }

\* Probabilities around the two thresholds, and the ends of the range.
RiskScores == {0, 2999, 3000, 3001, 5000, 6999, 7000, 7001, 10000}

\* SpecPredict: the inference paths on every record, with the model files
\* loaded or not.
InitPredict == ServerBuilt /\ \E is_loaded \in BOOLEAN : __init__(3, is_loaded)

AgentPredicts ==
    \E r \in PredictRecords, p \in RiskScores, f \in BOOLEAN : Predict(r, p, f)

EndpointPredicts ==
    \E r \in PredictRecords, p \in {3000, 7000}, f \in BOOLEAN :
        \/ ApiPredict(r, p, f)
        \/ ApiPredictSimple(r, p, f)

NextPredict == AgentPredicts \/ EndpointPredicts

SpecPredict == InitPredict /\ [][NextPredict]_vars

------------------------------------------------------------------------------
(* The difference of two prediction results *)

\* abs(x)
abs(x) == IF x < 0 THEN -x ELSE x

\* isinstance(v, (int, float))
is_number(v) == "number" \in DOMAIN v

\* The feature changes with the tolerance taken into the list.
feature_changes_inclusive(result1, result2, all_keys) ==
    LET f1 == result1.feature_values
        f2 == result2.feature_values
        changed(k) ==
            LET val1 == get(f1, k, None)
                val2 == get(f2, k, None)
            IN  /\ is_number(val1) /\ is_number(val2)
                /\ abs(val1.number - val2.number) >= 100
        entry(k) == [key |-> k, from |-> get(f1, k, None), to |-> get(f2, k, None)]
        selected == SelectSeq(all_keys, changed)
    IN  [i \in 1..Len(selected) |-> entry(selected[i])]

\* explanation_agent.py:82-101.  Values are in units of 1/10000: the
\* tolerance 0.01 is 100.  The display name and the unit of an entry are
\* looked up from FEATURE_INFO by its key.
feature_changes(result1, result2, all_keys) ==
    LET f1 == result1.feature_values
        f2 == result2.feature_values
        changed(k) ==
            LET val1 == get(f1, k, None)
                val2 == get(f2, k, None)
            IN  /\ is_number(val1) /\ is_number(val2)
                /\ abs(val1.number - val2.number) > 100
        entry(k) == [key |-> k, from |-> get(f1, k, None), to |-> get(f2, k, None)]
        selected == SelectSeq(all_keys, changed)
    IN  [i \in 1..Len(selected) |-> entry(selected[i])]

\* list.sort(key=lambda x: abs(x["impact_change"]), reverse=True),
\* explanation_agent.py:117: stable, the larger magnitude first.
RECURSIVE sort_by_magnitude(_)
sort_by_magnitude(impacts) ==
    IF impacts = <<>> THEN <<>>
    ELSE LET x == impacts[Len(impacts)]
             rest == sort_by_magnitude(SubSeq(impacts, 1, Len(impacts) - 1))
             before == SelectSeq(rest, LAMBDA y :
                           abs(y.impact_change) >= abs(x.impact_change))
             after == SelectSeq(rest, LAMBDA y :
                           abs(y.impact_change) < abs(x.impact_change))
         IN  before \o <<x>> \o after

\* The attribution changes that list the increases only.
shap_impacts_increases(result1, result2, all_keys) ==
    LET s1 == result1.shap_values
        s2 == result2.shap_values
        diff(k) == get(s2, k, Number(0)).number - get(s1, k, Number(0)).number
        selected == SelectSeq(all_keys, LAMBDA k : diff(k) > 50)
    IN  sort_by_magnitude(
            [i \in 1..Len(selected) |->
                [feature |-> selected[i], impact_change |-> diff(selected[i])]])

\* explanation_agent.py:103-117.  The loop goes through the keys of the two
\* feature_values, not those of the two shap_values; the tolerance 0.005
\* is 50.
shap_impacts(result1, result2, all_keys) ==
    LET s1 == result1.shap_values
        s2 == result2.shap_values
        diff(k) == get(s2, k, Number(0)).number - get(s1, k, Number(0)).number
        selected == SelectSeq(all_keys, LAMBDA k : abs(diff(k)) > 50)
    IN  sort_by_magnitude(
            [i \in 1..Len(selected) |->
                [feature |-> selected[i], impact_change |-> diff(selected[i])]])

\* ExplanationAgent._calculate_changes, explanation_agent.py:64-122.
\* all_keys is the order in which the loops go through the set of keys.  A
\* result that is None raises at line 76, and the except clause returns the
\* initial changes, without r1 and r2.
_calculate_changes(result1, result2, all_keys) ==
    IF result1 = None \/ result2 = None
    THEN [risk_change |-> 0, feature_changes |-> <<>>, shap_impacts |-> <<>>]
    ELSE [risk_change |-> result2.risk_score - result1.risk_score,
          r1 |-> result1.risk_score,
          r2 |-> result2.risk_score,
          feature_changes |-> feature_changes(result1, result2, all_keys),
          shap_impacts |-> shap_impacts(result1, result2, all_keys)]

\* A call of _calculate_changes.
CalculateChanges(result1, result2, all_keys) ==
    /\ core' = [op |-> "_calculate_changes", result1 |-> result1,
                result2 |-> result2, all_keys |-> all_keys,
                changes |-> _calculate_changes(result1, result2, all_keys)]
    /\ UNCHANGED <<session, agents, request, dispatch, chat, written_by,
                   prediction_agent, startup>>

\* CVDAgentOrchestrator.compare_scenarios, orchestrator.py:243-260, on the
\* results of the two predictions; the relative change is the quotient
\* numerator/denominator, times 100.
compare_scenarios(pred1, pred2) ==
    LET risk_change == pred2.risk_score - pred1.risk_score
        risk_change_pct ==
            IF pred1.risk_score # 0
            THEN [numerator |-> risk_change * 100,
                  denominator |-> pred1.risk_score]
            ELSE Number(0)
        comparison_explanation ==
            IF explanation_agent # None
            THEN compare_predictions(explanation_agent, pred1, pred2)
            ELSE None
    IN  [risk_change |-> risk_change,
         risk_change_percent |-> risk_change_pct,
         comparison_explanation |-> comparison_explanation]

\* A call of compare_scenarios: the two predictions, then the comparison.  A
\* prediction that raises ends the call.
CompareScenarios(scenario1_data, scenario2_data, risk1, risk2, fitted_on_frame) ==
    LET pred1 == predict(scenario1_data, risk1, fitted_on_frame)
        pred2 == predict(scenario2_data, risk2, fitted_on_frame)
    IN  /\ core' =
            IF pred1.outcome # "returned"
            THEN [op |-> "compare_scenarios", outcome |-> pred1.outcome]
            ELSE IF pred2.outcome # "returned"
            THEN [op |-> "compare_scenarios", outcome |-> pred2.outcome]
            ELSE [op |-> "compare_scenarios", outcome |-> "returned",
                  pred1 |-> pred1.result, pred2 |-> pred2.result,
                  result |-> compare_scenarios(pred1.result, pred2.result)]
        /\ UNCHANGED <<session, agents, request, dispatch, chat, written_by,
                       prediction_agent, startup>>

\* The prediction results of SpecDiff, as PredictionAgent.predict and the
\* chat endpoint (app.py:222-278, 336-344) build them: a risk score, the
\* feature values (a value can be None, the dict can be empty) and the
\* contributions under names of their own.
Result(risk_score, feature_values, shap_values) ==
    [risk_score |-> risk_score,
     feature_values |->
        [i \in 1..Len(feature_values) |->
            [key |-> feature_values[i][1], value |-> feature_values[i][2]]],
     shap_values |->
        [i \in 1..Len(shap_values) |->
            [key |-> shap_values[i][1], value |-> Number(shap_values[i][2])]]]

DiffResults ==
    { Result(0, << <<"BMI", Number(250000)>>, <<"Glucose", Number(1000000)>> >>,
                << <<"BMI", 100>>, <<"Glucose", -200>> >>),
      Result(3000, << <<"BMI", Number(250100)>>, <<"Glucose", Number(1000101)>> >>,
                   << <<"BMI", 150>>, <<"Glucose", -251>> >>),
      Result(0, << <<"BMI", Number(250000)>>, <<"Glucose", Number(1000000)>> >>,
                << <<"BMI", 151>>, <<"Glucose", -251>> >>),
      Result(6200, << <<"BMI", None>>, <<"Glucose", Number(1000000)>> >>,
                   << <<"BMI", 400>>, <<"systolic", 300>> >>),
      Result(6200, << <<"Glucose", Number(1000000)>>, <<"PT", Number(120000)>> >>,
                   << <<"Glucose", -200>>, <<"PT", 51>>, <<"BMI", 100>> >>),
      Result(3000, << >>, << <<"BMI", 400>> >>) }

\* The scenarios of compare_scenarios: a complete record, and one without PT.
ScenarioRecords ==
    { Record(FEATURE_INFO, {}, {}, <<>>), Record(FEATURE_INFO, {"PT"}, {}, <<>>) }

\* SpecDiff: _calculate_changes on every pair of results in every iteration
\* order, and compare_scenarios.
InitDiff ==
    ServerBuilt /\ \E built \in {0, 3}, is_loaded \in BOOLEAN : __init__(built, is_loaded)

Differences ==
    LET \* The orders in which a loop can go through a set.
        Iterations(S) ==
            { s \in [1..Cardinality(S) -> S] :
                \A i, j \in 1..Cardinality(S) : i # j => s[i] # s[j] }
    IN
    LET \* set(f1.keys()) | set(f2.keys()), explanation_agent.py:85.
        all_keys_of(result1, result2) ==
            { result1.feature_values[i].key : i \in 1..Len(result1.feature_values) } \cup
            { result2.feature_values[i].key : i \in 1..Len(result2.feature_values) }
    IN
    \E result1 \in DiffResults, result2 \in DiffResults :
        \E all_keys \in Iterations(all_keys_of(result1, result2)) :
            CalculateChanges(result1, result2, all_keys)

Comparisons ==
    \E s1 \in ScenarioRecords, s2 \in ScenarioRecords :
        \E p1 \in {0, 3000, 6200}, p2 \in {0, 3000, 6200}, f \in BOOLEAN :
            CompareScenarios(s1, s2, p1, p2, f)

NextDiff == Differences \/ Comparisons

SpecDiff == InitDiff /\ [][NextDiff]_vars

------------------------------------------------------------------------------
(* analyze_patient on feature records *)

\* An analyze_patient that forgets the current prediction when it fails.
analyze_patient_clearing(patient_data, risk_score, fitted_on_frame) ==
    LET prediction == predict(patient_data, risk_score, fitted_on_frame) IN
    IF prediction.outcome # "returned"
    THEN [current_prediction |-> None,
          current_patient_data |-> current_patient_data,
          updated_scenarios |-> updated_scenarios,
          outcome |-> prediction.outcome]
    ELSE [current_prediction |-> prediction.result,
          current_patient_data |-> patient_data,
          updated_scenarios |-> updated_scenarios,
          outcome |-> "returned"]

\* analyze_patient, orchestrator.py:193-198: what the session holds after the
\* call, and how the call ends.  predict (line 196) raises before the two
\* assignments of lines 197-198.
analyze_patient(patient_data, risk_score, fitted_on_frame) ==
    LET prediction == predict(patient_data, risk_score, fitted_on_frame) IN
    IF prediction.outcome # "returned"
    THEN [current_prediction |-> current_prediction,
          current_patient_data |-> current_patient_data,
          updated_scenarios |-> updated_scenarios,
          outcome |-> prediction.outcome]
    ELSE [current_prediction |-> prediction.result,
          current_patient_data |-> patient_data,
          updated_scenarios |-> updated_scenarios,
          outcome |-> "returned"]

\* A call of analyze_patient on a feature record, orchestrator.py:193-217:
\* the prediction, the session, then the explanation and the intervention
\* agents on the prediction.
AnalyzeRecord(patient_data, risk_score, fitted_on_frame) ==
    LET s == analyze_patient(patient_data, risk_score, fitted_on_frame) IN
    /\ core' = predict(patient_data, risk_score, fitted_on_frame)
    /\ current_prediction' = s.current_prediction
    /\ current_patient_data' = s.current_patient_data
    /\ updated_scenarios' = s.updated_scenarios
    /\ request' = Request("analyze_patient", "", NoContext)
    /\ dispatch' =
          IF s.outcome # "returned"
          THEN [intent |-> "none", call |-> NoCall, outcome |-> "raised"]
          ELSE IF intervention_agent # None
          THEN Dispatched("none",
                   suggest_interventions(intervention_agent, s.current_prediction))
          ELSE IF explanation_agent # None
          THEN Dispatched("none",
                   explain_prediction(explanation_agent, s.current_prediction))
          ELSE NoDispatch
    /\ written_by' = IF s.outcome = "returned" THEN NotWritten ELSE written_by
    /\ UNCHANGED <<agents, chat, prediction_agent, startup>>

\* The records of SpecAnalyze: complete ones in the order of FEATURE_INFO
\* (one with a null BMI) and of FEATURE_ORDER, one without PT, one without
\* PT and Calcium, one with a key more.
AnalyzeRecords ==
    { Record(FEATURE_INFO, {}, {}, <<>>),
      Record(FEATURE_INFO, {}, {"BMI"}, <<>>),
      Record(FEATURE_ORDER, {}, {}, <<>>),
      Record(FEATURE_INFO, {"PT"}, {}, <<>>),
      Record(FEATURE_INFO, {"PT", "Calcium, Total"}, {}, <<>>),
      Record(FEATURE_INFO, {}, {}, <<"patient_id">>) }

\* SpecAnalyze: analyze_patient on every record, with the model files loaded
\* or not.
AnalyzeRecordsNext ==
    \E r \in AnalyzeRecords, p \in RiskScores, f \in BOOLEAN : AnalyzeRecord(r, p, f)

SpecAnalyze == InitPredict /\ [][AnalyzeRecordsNext]_vars

\* ---------------------------------------------------------------------------
\* The first chat requests of a server: get_orchestrator (app.py:193-209)
\* builds the orchestrator on first use. A request is at "L318" when chat()
\* calls get_orchestrator, at "L196" before the test of the global, at "L200"
\* inside the try block, at "L209" before the return of the global, and at
\* "L320" once chat() holds the orchestrator it has been given.
\* ---------------------------------------------------------------------------

\* The locals of a request inside get_orchestrator and of chat() after it.
StartupLocals(pc, orchestrator) == [pc |-> pc, orchestrator |-> orchestrator]

\* XAI_AGENT_AVAILABLE (app.py:18-25): the agent package was imported.
XAI_AGENT_AVAILABLE == TRUE

\* app.py:318: chat() calls get_orchestrator().
ChatGetOrchestrator(t) ==
    /\ chat[t].pc = "idle"
    /\ chat' = [chat EXCEPT ![t] = StartupLocals("L196", NoInstance)]
    /\ UNCHANGED <<session, agents, request, dispatch, written_by,
                   prediction_agent, startup, core>>

\* app.py:196: if xai_orchestrator is None and XAI_AGENT_AVAILABLE.
GetOrchestratorTest(t) ==
    /\ chat[t].pc = "L196"
    /\ chat' = [chat EXCEPT ![t].pc =
                  IF xai_orchestrator = NoInstance /\ XAI_AGENT_AVAILABLE
                  THEN "L200" ELSE "L209"]
    /\ UNCHANGED <<session, agents, request, dispatch, written_by,
                   prediction_agent, startup, core>>

\* app.py:197-208: the constructor runs and its instance is stored in the
\* global, or it raises and get_orchestrator returns None. The instance is
\* named by the request that built it.
GetOrchestratorConstruct(t, raised) ==
    /\ chat[t].pc = "L200"
    /\ IF raised
       THEN /\ chat' = [chat EXCEPT ![t] = StartupLocals("L320", NoInstance)]
            /\ UNCHANGED startup
       ELSE /\ xai_orchestrator' = t
            /\ constructed' = constructed \cup {t}
            /\ chat' = [chat EXCEPT ![t].pc = "L209"]
    /\ UNCHANGED <<session, agents, request, dispatch, written_by,
                   prediction_agent, core>>

\* app.py:209: return xai_orchestrator, the value of the global at the return.
GetOrchestratorReturn(t) ==
    /\ chat[t].pc = "L209"
    /\ chat' = [chat EXCEPT ![t] = StartupLocals("L320", xai_orchestrator)]
    /\ UNCHANGED <<session, agents, request, dispatch, written_by,
                   prediction_agent, startup, core>>

\* app.py:320-501: the request is answered with the orchestrator it was given
\* (or by the fallback when it was given None) and ends.
ChatAnswered(t) ==
    /\ chat[t].pc = "L320"
    /\ chat' = [chat EXCEPT ![t] = Idle]
    /\ UNCHANGED <<session, agents, request, dispatch, written_by,
                   prediction_agent, startup, core>>

\* A server that has answered no chat request yet: the global is None
\* (app.py:50) and no orchestrator has been constructed.
InitStartup ==
    /\ xai_orchestrator = NoInstance
    /\ constructed = {}
    /\ \E built \in 0..3 : __init__(built, TRUE)

NextStartup ==
    \E t \in Threads :
        \/ ChatGetOrchestrator(t)
        \/ GetOrchestratorTest(t)
        \/ \E raised \in BOOLEAN : GetOrchestratorConstruct(t, raised)
        \/ GetOrchestratorReturn(t)
        \/ ChatAnswered(t)

SpecStartup == InitStartup /\ [][NextStartup]_vars
------------------------------------------------------------------------------
(* Properties of the router *)

\* The messages of the model that contain a keyword of a list.
MessagesWith(kws) == { m \in Messages : AnyIn(kws, Lower(Text[m])) }

ClinicalMessages == MessagesWith(clinical_keywords)
ResearchMessages == MessagesWith(research_keywords)
CompareMessages == MessagesWith(compare_keywords)
ExplainMessages == MessagesWith(explain_keywords)
PlanMessages == MessagesWith(plan_keywords)

\* The last call was a route_request that got as far as classifying.
Classified == request.op = "route_request" /\ dispatch.intent # "none"

AllAgents ==
    /\ explanation_agent # None
    /\ knowledge_agent # None
    /\ intervention_agent # None

\* C1: a message with a clinical keyword is classified as knowledge, whatever
\* plan, comparison or explanation keywords it also contains.
C1_ClinicalIsKnowledge ==
    (Classified /\ request.user_message \in ClinicalMessages)
        => dispatch.intent = "knowledge"

\* C1 witness: a message with clinical, plan, comparison and explanation
\* keywords was classified as knowledge and answered by the knowledge agent.
C1_Witness ==
    /\ Classified
    /\ request.user_message \in
          ClinicalMessages \cap PlanMessages \cap CompareMessages \cap ExplainMessages
    /\ dispatch.intent = "knowledge"
    /\ dispatch.call.agent = "knowledge"

\* A direct question, as the router tests it: a question mark or one of its
\* interrogative words.
DirectQuestions == { m \in Messages : IsSpecificQuestion[m] }

\* C2: with every agent configured, a message that contains a plan keyword
\* and is a direct question is answered by the knowledge capability.
C2_PlanQuestionToKnowledge ==
    (Classified /\ AllAgents
        /\ request.user_message \in PlanMessages \cap DirectQuestions)
        => dispatch.call.agent = "knowledge"

\* The messages the comparison rule decides: a comparison keyword and no
\* keyword of the two rules before it.
ComparisonDecided == CompareMessages \ (ClinicalMessages \cup ResearchMessages)

\* C3 as stated: with an empty scenario history a message with a comparison
\* keyword is classified by the later rules, as if the keyword were absent.
C3_FallsThroughOnEmptyHistory ==
    (Classified /\ request.user_message \in ComparisonDecided
        /\ updated_scenarios = <<>>)
        => dispatch.intent = _analyze_intent_later_rules(Text[request.user_message])

\* C3 as amended: a message the comparison rule decides is classified as
\* explanation whatever the scenario history; the history only chooses, inside
\* the explanation capability, between compare_predictions (a trigger word and
\* a non-empty history) and explain_prediction.
C3_ComparisonIsExplanation ==
    (Classified /\ request.user_message \in ComparisonDecided)
        => /\ dispatch.intent = "explanation"
           /\ explanation_agent # None =>
                dispatch.call.method =
                    IF IsComparison[request.user_message] /\ updated_scenarios # <<>>
                    THEN "compare_predictions" ELSE "explain_prediction"

\* C3 witness: a comparison message without explanation keyword met an empty
\* history and went to explain_prediction.
C3_Witness ==
    /\ Classified
    /\ request.user_message \in (ComparisonDecided \cap PlanMessages) \ ExplainMessages
    /\ updated_scenarios = <<>>
    /\ dispatch.intent = "explanation"
    /\ dispatch.call.method = "explain_prediction"

\* The comparison keywords the routing-priority property names.
named_comparison_keywords ==
    << <<"c","o","m","p","a","r","e">>,
       <<"v","e","r","s","u","s">>,
       <<"d","i","f","f","e","r","e","n","c","e">>,
       <<"w","h","a","t","-","i","f">> >>

\* C4: with a non-empty history and an explanation agent, a message with one
\* of the named comparison keywords and an explanation keyword (and nothing
\* an earlier rule catches) is dispatched to compare_predictions.
C4_ComparisonPathFires ==
    (Classified /\ explanation_agent # None /\ updated_scenarios # <<>>
        /\ request.user_message \in
              (MessagesWith(named_comparison_keywords) \cap ExplainMessages)
                  \ (ClinicalMessages \cup ResearchMessages))
        => dispatch.call.method = "compare_predictions"

\* C5: a comparison passes the current prediction as the first result and the
\* last entry of the scenario history as the second.
C5_ComparesLatestScenario ==
    (request.op = "route_request" /\ dispatch.call.method = "compare_predictions")
        => /\ updated_scenarios # <<>>
           /\ dispatch.call.result1 = current_prediction
           /\ dispatch.call.result2 = updated_scenarios[Len(updated_scenarios)]

\* C5 witness: a comparison over a history whose first and last entries differ.
C5_Witness ==
    /\ request.op = "route_request"
    /\ dispatch.call.method = "compare_predictions"
    /\ Len(updated_scenarios) >= 2
    /\ updated_scenarios[1] # updated_scenarios[Len(updated_scenarios)]
    /\ current_prediction # None

\* The agents as the constructor left them.
DefaultFlags ==
    /\ explanation_agent # None => explanation_agent.use_rag
    /\ intervention_agent # None => intervention_agent.use_rag
    /\ knowledge_agent # None =>
          knowledge_agent.use_rag /\ knowledge_agent.use_pubmed

\* C6: after a route_request that carried no override, every agent's flags
\* are the session defaults, whatever earlier requests overrode.
C6_OverrideDoesNotLeak ==
    (request.op = "route_request" /\ request.overrides = {}) => DefaultFlags

\* The agent that serves an intent.
AgentFor(intent) ==
    CASE intent = "explanation" -> explanation_agent
      [] intent = "intervention" -> intervention_agent
      [] intent = "knowledge" -> knowledge_agent

\* C7: when the agent of the classified intent is missing, route_request
\* fails for that intent, which at the least means that it calls no other
\* capability in its place.
C7_UnavailableFails ==
    (Classified /\ AgentFor(dispatch.intent) = None)
        => dispatch.call = NoCall

\* What a call was handed: its prediction, its patient record (or NotHanded)
\* and the scenarios it got, in order.
NotHanded == [not_handed |-> TRUE]

HandedPrediction(call) ==
    CASE call.method = "compare_predictions" -> call.result1
      [] call.method = "answer_question" -> call.context.prediction
      [] OTHER -> call.prediction_result

HandedPatientData(call) ==
    IF call.method = "answer_question"
    THEN call.context.patient_data ELSE NotHanded

HandedScenarios(call) ==
    IF call.method = "compare_predictions" THEN <<call.result2>> ELSE <<>>

\* C8 as stated: every call route_request makes is handed the current
\* prediction, the current patient record and the whole scenario history.
C8_HandsAllThree ==
    (request.op = "route_request" /\ dispatch.call # NoCall)
        => /\ HandedPrediction(dispatch.call) = current_prediction
           /\ HandedPatientData(dispatch.call) = current_patient_data
           /\ HandedScenarios(dispatch.call) = updated_scenarios

\* C8 as amended: every call is handed the current prediction; the patient
\* record goes to the knowledge capability only, and of the history only the
\* last entry is handed on, to compare_predictions only.
C8_HandsCurrentPrediction ==
    (request.op = "route_request" /\ dispatch.call # NoCall)
        => /\ HandedPrediction(dispatch.call) = current_prediction
           /\ HandedPatientData(dispatch.call) =
                IF dispatch.call.agent = "knowledge"
                THEN current_patient_data ELSE NotHanded
           /\ HandedScenarios(dispatch.call) =
                IF dispatch.call.method = "compare_predictions"
                THEN <<updated_scenarios[Len(updated_scenarios)]>> ELSE <<>>

\* C8 witness: the intervention agent was handed the current prediction while
\* the session held a patient record and a scenario that is not the current
\* prediction.
C8_Witness ==
    /\ request.op = "route_request"
    /\ dispatch.call.method = "suggest_interventions"
    /\ current_prediction # None
    /\ dispatch.call.prediction_result = current_prediction
    /\ current_patient_data # None
    /\ updated_scenarios # <<>>
    /\ updated_scenarios[Len(updated_scenarios)] # current_prediction

------------------------------------------------------------------------------
(* C10 *)

\* Thread t has made its capability call and has not answered yet.
Called(t) == chat[t].pc # "idle" /\ chat[t].call # NoCall

\* The call of thread t got a prediction written by one request in flight
\* together with a patient record, or a latest scenario, of another one.
MixedSession(t) ==
    LET l == chat[t] IN
    /\ l.prediction_from \in Threads
    /\ \/ l.patient_from \in Threads /\ l.patient_from # l.prediction_from
       \/ l.scenario_from \in Threads /\ l.scenario_from # l.prediction_from

\* C10: with concurrent chat requests on the shared orchestrator, no
\* capability call reads a session in which current_prediction comes from one
\* request while current_patient_data or the last scenario comes from a
\* different request that is in flight at the same time.
C10_NoMixedSession == \A t \in Threads : Called(t) => ~MixedSession(t)

------------------------------------------------------------------------------
(* C11 *)

\* The record a prediction was computed from; None for no prediction.
RecordOf(prediction) ==
    IF prediction = None THEN None ELSE prediction.feature_values

\* The patient records behind the data a capability call was given.
RecordsUsed(call) ==
    CASE call.method = "compare_predictions" ->
            {RecordOf(call.result1), RecordOf(call.result2)}
      [] call.method = "explain_prediction" -> {RecordOf(call.prediction_result)}
      [] call.method = "suggest_interventions" -> {RecordOf(call.prediction_result)}
      [] call.method = "answer_question" ->
            IF call.context = None THEN {}
            ELSE {RecordOf(call.context.prediction), call.context.patient_data}
      [] OTHER -> {}

\* C11: sessions are independent: the prediction, the patient record and the
\* scenario a request is answered with are its own session's (or none), never
\* those another session's request supplied, for every sequence and
\* interleaving of the two sessions' chat requests.
C11_OwnSessionData ==
    \A t \in Threads :
        Called(t) => RecordsUsed(chat[t].call) \subseteq {None, SessionRecord[t]}

\* C12: on every inference path that reaches the explainer, the imputer is
\* applied first and the scaler second: every cell of the vector has been
\* through the imputer and then the scaler, and no scaler call precedes the
\* imputer call.
C12_ImputerBeforeScaler ==
    (core.op # "none" /\ core.outcome = "returned") =>
        /\ core.steps = <<"imputer", "scaler", "explainer">>
        /\ \A i \in 1..Len(core.vector) :
              core.vector[i].applied = <<"imputer", "scaler">>

\* C13: for every validated record, the vector is built in the schema order
\* from exactly the required keys: position i holds the value of the i-th
\* schema key, the i-th contribution is attributed to the i-th schema key,
\* and a key outside the schema does not reach the transforms (the call
\* returns whatever the key order and the extra keys of the record).
C13_SchemaOrder ==
    ( /\ core.op = "predict"
      /\ prediction_agent.is_loaded
      /\ validate_patient_data(core.patient_data).is_valid ) =>
        /\ core.outcome = "returned"
        /\ Len(core.vector) = Len(FEATURE_INFO)
        /\ \A i \in 1..Len(core.vector) : core.vector[i].from = FEATURE_INFO[i]
        /\ \A s \in core.result.shap_values : s.feature = FEATURE_INFO[s.column]

\* The required features a record lacks.
AbsentFeatures(patient_data) ==
    { FEATURE_INFO[i] : i \in 1..Len(FEATURE_INFO) } \ 
    { patient_data[i].key : i \in 1..Len(patient_data) }

\* C14: predict, with the model loaded, raises the validation failure exactly
\* when the record lacks a required feature; the failure names every absent
\* required feature and no present one; and a call on a record that lacks a
\* required feature calls no transform and no explainer, loaded or not.
C14_MissingFeatures ==
    core.op = "predict" =>
        LET absent == AbsentFeatures(core.patient_data) IN
        /\ absent # {} => (core.steps = <<>> /\ core.outcome # "returned")
        /\ prediction_agent.is_loaded =>
              /\ (core.outcome = "ValueError" /\ core.steps = <<>>) <=> absent # {}
              /\ absent # {} =>
                    /\ ~core.result.is_valid
                    /\ { core.result.missing_features[i] :
                           i \in 1..Len(core.result.missing_features) } = absent
                    /\ Len(core.result.missing_features) = Cardinality(absent)

\* A validation failure that names two absent features.
C14_Witness ==
    /\ core.op = "predict"
    /\ prediction_agent.is_loaded
    /\ core.outcome = "ValueError"
    /\ core.steps = <<>>
    /\ Cardinality(AbsentFeatures(core.patient_data)) = 2

\* C15: predict assigns Low iff risk_score < 0.30, Moderate iff
\* 0.30 <= risk_score < 0.70 and High iff risk_score >= 0.70.
C15_RiskLevel ==
    (core.op = "predict" /\ core.outcome = "returned") =>
        LET r == core.result IN
        /\ r.risk_level = "Low" <=> r.risk_score < 3000
        /\ r.risk_level = "Moderate" <=> (3000 <= r.risk_score /\ r.risk_score < 7000)
        /\ r.risk_level = "High" <=> r.risk_score >= 7000

\* A prediction with a risk score of exactly 0.3.
C15_Witness ==
    /\ core.op = "predict"
    /\ core.outcome = "returned"
    /\ core.result.risk_score = 3000
    /\ core.result.risk_level = "Moderate"

\* The last call was a _calculate_changes of two results.
Diffed == core.op = "_calculate_changes"

\* The keys of a dict.
KeySet(d) == { d[i].key : i \in 1..Len(d) }

Contribution(result, f) == get(result.shap_values, f, Number(0)).number

\* C17: diff lists in attribution_changes every feature that has a
\* contribution in either result and whose delta (the second contribution
\* less the first, a missing one counted as 0) exceeds 0.005 in magnitude,
\* strictly, lists no other feature, gives each its delta, and orders the
\* list by magnitude, descending.
C17_AttributionChanges ==
    Diffed =>
        LET a == core.result1
            b == core.result2
            listed == core.changes.shap_impacts
            delta(f) == Contribution(b, f) - Contribution(a, f)
        IN  /\ { listed[i].feature : i \in 1..Len(listed) } =
                  { f \in KeySet(a.shap_values) \cup KeySet(b.shap_values) :
                      delta(f) > 50 \/ delta(f) < -50 }
            /\ \A i \in 1..Len(listed) :
                  listed[i].impact_change = delta(listed[i].feature)
            /\ \A i, j \in 1..Len(listed) :
                  i < j => abs(listed[i].impact_change) >= abs(listed[j].impact_change)

\* C18: the risk delta of diff(a, b) is the negation of that of diff(b, a),
\* and the attribution changes of diff(a, b) are those of diff(b, a), each
\* with the negated delta.
C18_DeltaSymmetry ==
    Diffed =>
        LET forward == core.changes
            backward == _calculate_changes(core.result2, core.result1, core.all_keys)
        IN  /\ forward.risk_change = - backward.risk_change
            /\ { <<forward.shap_impacts[i].feature,
                   forward.shap_impacts[i].impact_change>> :
                     i \in 1..Len(forward.shap_impacts) } =
               { <<backward.shap_impacts[i].feature,
                   - backward.shap_impacts[i].impact_change>> :
                     i \in 1..Len(backward.shap_impacts) }

\* A diff with a risk delta and with an increase and a decrease among its
\* attribution changes.
C18_Witness ==
    /\ Diffed
    /\ core.changes.risk_change # 0
    /\ \E i, j \in 1..Len(core.changes.shap_impacts) :
          /\ core.changes.shap_impacts[i].impact_change > 0
          /\ core.changes.shap_impacts[j].impact_change < 0

\* C19: when the first scenario's risk score is 0, compare_scenarios reports
\* the risk delta only and no relative change.
C19_NoRelativeChange ==
    ( /\ core.op = "compare_scenarios"
      /\ core.outcome = "returned"
      /\ core.pred1.risk_score = 0 ) =>
        /\ "risk_change" \in DOMAIN core.result
        /\ "risk_change_percent" \notin DOMAIN core.result

\* C20: an explanation or comparison request routed while the session has
\* no current prediction or no scenario history does not raise.
C20_NoRaise ==
    ( /\ Classified
      /\ dispatch.call.agent = "explanation"
      /\ (current_prediction = None \/ updated_scenarios = <<>>) ) =>
        dispatch.outcome = "returned"

------------------------------------------------------------------------------
(* Properties of the session state and of the chat endpoint *)

\* s is the beginning of t.
IsPrefix(s, t) == Len(s) <= Len(t) /\ SubSeq(t, 1, Len(s)) = s

\* C21: the scenario history only grows (every step keeps the entries it had,
\* in place), and an analyze_patient on a session that already has a
\* prediction appends the new prediction to the end of the history.
C21_HistoryAppendOnly ==
    [][ /\ IsPrefix(updated_scenarios, updated_scenarios')
        /\ (request'.op = "analyze_patient" /\ current_prediction # None)
              => updated_scenarios' = Append(updated_scenarios, current_prediction')
      ]_vars

\* C22: for every pair of valid records, the result of compare_scenarios
\* carries both scenarios' predictions, each with its risk score, together
\* with risk_change and risk_change_percent.
C22_CarriesScenarios ==
    (core.op = "compare_scenarios" /\ core.outcome = "returned") =>
        /\ {"scenario1", "scenario2", "risk_change", "risk_change_percent"}
              \subseteq DOMAIN core.result
        /\ core.result.scenario1.prediction.risk_score = core.pred1.risk_score
        /\ core.result.scenario2.prediction.risk_score = core.pred2.risk_score

\* Every agent has the flags the orchestrator was built with (use_rag=True,
\* use_pubmed=True).
SessionDefaults ==
    /\ explanation_agent.use_rag
    /\ intervention_agent.use_rag
    /\ knowledge_agent.use_rag
    /\ knowledge_agent.use_pubmed

\* No request is in flight.
Quiet == \A t \in Threads : chat[t].pc = "idle"

\* C23: in every interleaving of chat requests with different source
\* toggles, the capability call of a request runs with that request's own
\* toggle values, and once every request has completed each agent's use_rag
\* and use_pubmed have their session-level defaults.
C23_OwnToggles ==
    /\ \A t \in Threads :
          Called(t) =>
              /\ chat[t].call.self.use_rag = chat[t].context.useGuidelineSources
              /\ chat[t].call.agent = "knowledge" =>
                    chat[t].call.self.use_pubmed = chat[t].context.usePubmedSources
    /\ Quiet => SessionDefaults

\* C24: with one request in flight at a time, every agent's use_rag and
\* use_pubmed after a request has finished are what they were before it (the
\* session defaults, by induction on the requests), on every path through
\* the handler, the path where the capability call raises included.
C24_FlagsRestored ==
    chat["t1"].pc = "idle" => SessionDefaults

\* The capability route_request selects for a message on the session and the
\* agents as they are.
RouterCall(user_message) ==
    route(user_message,
          [current_patient_data |-> current_patient_data,
           current_prediction |-> current_prediction,
           updated_scenarios |-> updated_scenarios],
          [knowledge_agent |-> knowledge_agent,
           explanation_agent |-> explanation_agent,
           intervention_agent |-> intervention_agent]).call

\* C25: for every message and session state, the capability the chat
\* endpoint calls is the one route_request selects for the same message on
\* the same session.
C25_SameCapability ==
    Called("t1") =>
        /\ chat["t1"].call.agent = RouterCall(chat["t1"].user_message).agent
        /\ chat["t1"].call.method = RouterCall(chat["t1"].user_message).method

\* The predictions the session holds: the current one, if any, and the
\* scenarios.
StoredPredictions ==
    (IF current_prediction = None THEN {} ELSE {current_prediction})
    \cup { updated_scenarios[i] : i \in 1..Len(updated_scenarios) }

\* C26: the risk level the chat endpoint attaches to the current prediction
\* and to every what-if scenario is the one the risk scorer assigns to the
\* same risk score.
C26_SameBuckets ==
    \A p \in StoredPredictions : p.risk_level = risk_level(p.risk_score)

\* C27: every prediction the chat endpoint stores has a risk score within
\* [0, 1], and a percentage p from 0 to 100 sent by the client is stored as
\* the probability p/100 (p in hundredths of a percent is p/100 in units of
\* 1/10000).
C27_StoredProbability ==
    /\ \A p \in StoredPredictions : p.risk_score \in 0..10000
    /\ chat["t1"].pc = "L350" =>
          (float[chat["t1"].context.riskScore] \in 0..10000 =>
              current_prediction.risk_score = float[chat["t1"].context.riskScore])

\* C28: current_prediction and current_patient_data describe the same
\* record: both are null, or the prediction's feature_values is the current
\* patient data.
C28_SameRecord ==
    \/ current_prediction = None /\ current_patient_data = None
    \/ /\ current_prediction # None
       /\ current_prediction.feature_values = current_patient_data

\* C29: an analyze_patient that fails (missing features, model not loaded, a
\* transform that rejects the record) leaves current_prediction,
\* current_patient_data and the scenario history as they were.
C29_FailureKeepsSession ==
    [][ (request'.op = "analyze_patient" /\ core'.outcome # "returned")
            => UNCHANGED <<current_prediction, current_patient_data,
                           updated_scenarios>>
      ]_vars

\* An analyze_patient failed on missing features in a session that holds the
\* prediction of an earlier, complete record.
C29_Witness ==
    /\ request.op = "analyze_patient"
    /\ core.op = "predict"
    /\ core.outcome = "ValueError"
    /\ AbsentFeatures(core.patient_data) # {}
    /\ current_prediction # None
    /\ current_patient_data # core.patient_data

\* C30: for any interleaving of concurrent first chat requests,
\* get_orchestrator constructs at most one orchestrator whose construction
\* succeeds, and every request that is given an orchestrator is given that
\* one instance.
C30_OneOrchestrator ==
    /\ Cardinality(constructed) <= 1
    /\ \A t \in Threads :
           (chat[t].pc = "L320" /\ chat[t].orchestrator # NoInstance)
               => constructed = {chat[t].orchestrator}

=============================================================================
